---- MODULE Spec2Model ----
(***************************************************************************)
(* Passwordless email-link sign-in engine of Eskimo                        *)
(* (auth/email_link): SignIn, signIn, verifySignIn,                        *)
(* increaseWrongConfirmationCodeAttemptsCount, finishAuthProcess,          *)
(* resetLoginSession and Status, over the tables email_link_sign_ins,      *)
(* account_metadata and sign_ins_per_ip.                                   *)
(*                                                                         *)
(* Every storage call is one atomic step of the calling request; the Go    *)
(* code between two storage calls works on the request's own copy `els`    *)
(* of the row and is folded into the step of the storage call it leads to. *)
(* Errors are modelled as the set of sentinel errors that errors.Is finds  *)
(* in the returned (possibly aggregated) error.                            *)
(***************************************************************************)
EXTENDS Integers, FiniteSets, Sequences, TLC

VARIABLES
    now,                \* wall clock (time.Now())
    cfg,                \* c.cfg: MaxWrongAttemptsCount, BlockDuration
    emailLinkSignIns,   \* table email_link_sign_ins: a set of rows
    accountMetadata,    \* table account_metadata: a set of rows
    signInsPerIP,       \* table sign_ins_per_ip: a set of rows
    userEmail,          \* account-level email of every user
    firebaseEmail,      \* identity-provider email of every user
    pc,                 \* position of every request handler
    args,               \* arguments of the call a handler is serving
    els,                \* the handler's copy of the sign-in row (*emailLinkSignIn)
    ret,                \* locals and results of the call
    hist,               \* history of the call: which steps it took
    budget,             \* remaining number of calls / link requests explored
    deleteUserCall      \* users.deleteUser: position, error, context, counters

vars == <<now, cfg, emailLinkSignIns, accountMetadata, signInsPerIP, userEmail,
          firebaseEmail, pc, args, els, ret, hist, budget, deleteUserCall>>

----------------------------------------------------------------------------
(* Bounds of the exploration *)

MaxTime == 1
MaxCalls == 2
MaxLinks == 1
MaxUpdates == 1
SmallMaxWrongAttempts == 2
ScenarioMaxWrongAttempts == 10
ScenarioMaxCalls == 12
ScenarioMaxTime == 3
BlockDurationTicks == 2
RateMaxLinks == 12
RateMaxCalls == 2
StatusMaxCalls == 3
LinkMaxLinks == 2
BlockMaxCalls == 3
DeleteMaxAttempts == 3
DeleteMaxDepth == 2

(* Program constants *)

MaxLoginAttemptsPerIP == 10

NULL == "NULL"
Procs == {"p1", "p2"}
Emails == {"alice@x.com"}
OldEmails == {"old@x.com"}
Devices == {"D1"}
UserIDs == {"u1"}
Codes == {"c1", "c2"}
OTPs == {"o1"}
IPs == {"ip1"}
iceIDPrefix == "ice_"
NativeIDs == {"ice_u2", "ice_f1"}      \* the identifiers that start with iceIDPrefix
NoTime == 0 - 1                        \* a NULL timestamp

ErrInvalidToken == "ErrInvalidToken"
ErrNoConfirmationRequired == "ErrNoConfirmationRequired"
ErrNoPendingLoginSession == "ErrNoPendingLoginSession"
ErrConfirmationCodeWrong == "ErrConfirmationCodeWrong"
ErrConfirmationCodeAttemptsExceeded == "ErrConfirmationCodeAttemptsExceeded"
ErrStatusNotVerified == "ErrStatusNotVerified"
ErrStorage == "ErrStorage"
ErrTooManyAttempts == "ErrTooManyAttempts"
ErrResetEmailModification == "ErrResetEmailModification"
ErrResetFirebaseEmailModification == "ErrResetFirebaseEmailModification"
NilDereference == "panic: nil pointer dereference"
ErrNotFound == "storage.ErrNotFound"
ErrRelationNotFound == "storage.ErrRelationNotFound"
ErrContext == "ctx.Err()"

----------------------------------------------------------------------------
(* Metadata (users.JSON) restricted to the three claims the code reads.    *)
(* A claim that is absent from the map is NULL.                            *)

NoMetadata == [iceID |-> NULL, firebaseID |-> NULL, registeredWithProvider |-> NULL]

\* strings.HasPrefix over the identifiers of the model
HasPrefix(s, prefix) == prefix = iceIDPrefix /\ s \in NativeIDs

\* mergo.Merge(&dst, src, WithOverride): every key present in src wins.
Merge(dst, src) ==
    [k \in DOMAIN dst |-> IF src[k] # NULL THEN src[k] ELSE dst[k]]

\* The back-fill decided on the firebase id alone, without the test of
\* the userID's prefix.
mdToUpdateIgnoresUserID(userID, md) ==
    LET base == [iceID |-> userID,
                 firebaseID |-> NULL,
                 registeredWithProvider |->
                    IF /\ md.registeredWithProvider = NULL
                       /\ md.firebaseID # NULL
                       /\ ~HasPrefix(md.firebaseID, iceIDPrefix)
                    THEN "firebase" ELSE NULL]
    IN Merge(base, md)

\* finishAuthProcess, lines 146-160: the metadata value written for userID.
\* A nil md is the empty map (lines 147-150), here NoMetadata.
mdToUpdate(userID, md) ==
    LET base == [iceID |-> userID,
                 firebaseID |-> NULL,
                 registeredWithProvider |->
                    IF /\ md.registeredWithProvider = NULL
                       /\ md.firebaseID # NULL
                       /\ ~HasPrefix(md.firebaseID, iceIDPrefix)
                       /\ ~HasPrefix(userID, iceIDPrefix)
                    THEN "firebase" ELSE NULL]
    IN Merge(base, md)

----------------------------------------------------------------------------
(* SQL helpers: a table is a set of rows *)

ByPk(id, r) == r.email = id.email /\ r.deviceUniqueID = id.deviceUniqueID

ID == [email |-> "alice@x.com", deviceUniqueID |-> "D1"]

NoEls == [email |-> NULL, deviceUniqueID |-> NULL, createdAt |-> NoTime,
          tokenIssuedAt |-> NoTime, blockedUntil |-> NoTime, emailConfirmedAt |-> NoTime,
          issuedTokenSeq |-> 0, previouslyIssuedTokenSeq |-> 0,
          confirmationCodeWrongAttemptsCount |-> 0, confirmationCode |-> NULL,
          otp |-> NULL, userID |-> NULL, phoneNumberToEmailMigrationUserID |-> NULL,
          metadata |-> NoMetadata]

NoTokens == [seq |-> 0 - 1, userID |-> NULL, issuedAt |-> NoTime]

NoArgs == [op |-> NULL, tokenValid |-> FALSE, confirmationCode |-> NULL, oldEmail |-> "", clientIP |-> "",
           loginSessionNumber |-> 0, now |-> NoTime, ctxDone |-> FALSE]

NoRet == [emailConfirmed |-> FALSE, issuedTokenSeq |-> 0, tokens |-> NoTokens, err |-> {}]

NoHist == [read |-> FALSE, found |-> FALSE, verifiedAt |-> NoTime, verifyErr |-> {}, wrote |-> FALSE,
           modified |-> FALSE, finalize |-> "none", finalizeErr |-> {},
           finalizeRet |-> 0, resetEmail |-> "none",
           resetFirebase |-> "none", rotation |-> "none"]

----------------------------------------------------------------------------
(* Confirmation Verifier *)

\* The window test that never finds the block in place.
blockTimeFitsNowNever(e, t, c) == FALSE

\* verifySignIn, lines 92-93: the block of the record lies after its
\* creation and before now + BlockDuration.
blockTimeFitsNow(e, t, c) ==
    e.blockedUntil < t + c.BlockDuration /\ e.blockedUntil > e.createdAt

\* Every presented code refused, the stored one included.
codeRefusedAlways(e, confirmationCode, shouldBeBlocked) == TRUE

\* The test of line 102 on the code alone, without the pending block.
codeRefusedOnMismatchOnly(e, confirmationCode, shouldBeBlocked) ==
    e.confirmationCode # confirmationCode

\* verifySignIn, line 102: the presented code is refused.
codeRefused(e, confirmationCode, shouldBeBlocked) ==
    e.confirmationCode # confirmationCode \/ shouldBeBlocked

\* The test of line 103 with > for >=.
blockOnIncrementLate(e, c, shouldBeBlocked) ==
    shouldBeBlocked \/ e.confirmationCodeWrongAttemptsCount + 1 > c.MaxWrongAttemptsCount

\* verifySignIn, lines 103-105: the increment also installs the block.
blockOnIncrement(e, c, shouldBeBlocked) ==
    shouldBeBlocked \/ e.confirmationCodeWrongAttemptsCount + 1 >= c.MaxWrongAttemptsCount

\* The comparison of line 102 inverted: the stored code is the one refused.
verifySignInInvertedCompare(e, confirmationCode, t, c) ==
    LET over == e.confirmationCodeWrongAttemptsCount >= c.MaxWrongAttemptsCount
        blockEndTime == t + c.BlockDuration
        fitsNow == e.blockedUntil < blockEndTime /\ e.blockedUntil > e.createdAt
        shouldBeBlocked1 == over /\ ~fitsNow
        mErr1 == IF over THEN {ErrConfirmationCodeAttemptsExceeded} ELSE {}
        shouldBeBlocked2 ==
            \/ shouldBeBlocked1
            \/ e.confirmationCodeWrongAttemptsCount + 1 >= c.MaxWrongAttemptsCount
    IN  IF over /\ e.blockedUntil = NoTime
        THEN [panic |-> TRUE, write |-> FALSE, block |-> FALSE, err |-> {NilDereference}]
        ELSE IF over /\ ~shouldBeBlocked1
        THEN [panic |-> FALSE, write |-> FALSE, block |-> FALSE,
              err |-> {ErrConfirmationCodeAttemptsExceeded}]
        ELSE IF e.confirmationCode = confirmationCode \/ shouldBeBlocked1
        THEN [panic |-> FALSE, write |-> TRUE, block |-> shouldBeBlocked2,
              err |-> mErr1 \cup {ErrConfirmationCodeWrong}]
        ELSE [panic |-> FALSE, write |-> FALSE, block |-> FALSE, err |-> {}]

\* The budget test of line 91 with > for >=.
verifySignInOffByOne(e, confirmationCode, t, c) ==
    LET over == e.confirmationCodeWrongAttemptsCount > c.MaxWrongAttemptsCount
        blockEndTime == t + c.BlockDuration
        fitsNow == e.blockedUntil < blockEndTime /\ e.blockedUntil > e.createdAt
        shouldBeBlocked1 == over /\ ~fitsNow
        mErr1 == IF over THEN {ErrConfirmationCodeAttemptsExceeded} ELSE {}
        shouldBeBlocked2 ==
            \/ shouldBeBlocked1
            \/ e.confirmationCodeWrongAttemptsCount + 1 >= c.MaxWrongAttemptsCount
    IN  IF over /\ e.blockedUntil = NoTime
        THEN [panic |-> TRUE, write |-> FALSE, block |-> FALSE, err |-> {NilDereference}]
        ELSE IF over /\ ~shouldBeBlocked1
        THEN [panic |-> FALSE, write |-> FALSE, block |-> FALSE,
              err |-> {ErrConfirmationCodeAttemptsExceeded}]
        ELSE IF e.confirmationCode # confirmationCode \/ shouldBeBlocked1
        THEN [panic |-> FALSE, write |-> TRUE, block |-> shouldBeBlocked2,
              err |-> mErr1 \cup {ErrConfirmationCodeWrong}]
        ELSE [panic |-> FALSE, write |-> FALSE, block |-> FALSE, err |-> {}]

\* verifySignIn, lines 88-116, up to its storage call: what it decides on
\* the copy e of the row, for the presented code, at time t.
\*   write  - increaseWrongConfirmationCodeAttemptsCount is called
\*   block  - ... with shouldBeBlocked
\*   err    - the sentinels of the returned error ({} is nil)
\*   panic  - els.BlockedUntil.Before(...) on a nil BlockedUntil (line 93)
verifySignIn(e, confirmationCode, t, c) ==
    LET over == e.confirmationCodeWrongAttemptsCount >= c.MaxWrongAttemptsCount
        shouldBeBlocked1 == over /\ ~blockTimeFitsNow(e, t, c)
        mErr1 == IF over THEN {ErrConfirmationCodeAttemptsExceeded} ELSE {}
        shouldBeBlocked2 == blockOnIncrement(e, c, shouldBeBlocked1)
    IN  IF over /\ e.blockedUntil = NoTime
        THEN [panic |-> TRUE, write |-> FALSE, block |-> FALSE, err |-> {NilDereference}]
        ELSE IF over /\ ~shouldBeBlocked1
        THEN [panic |-> FALSE, write |-> FALSE, block |-> FALSE,
              err |-> {ErrConfirmationCodeAttemptsExceeded}]
        ELSE IF codeRefused(e, confirmationCode, shouldBeBlocked1)
        THEN [panic |-> FALSE, write |-> TRUE, block |-> shouldBeBlocked2,
              err |-> mErr1 \cup {ErrConfirmationCodeWrong}]
        ELSE [panic |-> FALSE, write |-> FALSE, block |-> FALSE, err |-> {}]

\* The UPDATE without its blocked_until clause.
increaseWrongConfirmationCodeAttemptsCountOnly(table, id, shouldBeBlocked, t, c) ==
    {IF ByPk(id, r) THEN [r EXCEPT !.confirmationCodeWrongAttemptsCount = @ + 1] ELSE r
     : r \in table}

\* increaseWrongConfirmationCodeAttemptsCount, lines 119-134: the UPDATE.
increaseWrongConfirmationCodeAttemptsCount(table, id, shouldBeBlocked, t, c) ==
    LET Where(r) == ByPk(id, r)
        Set(r) == [r EXCEPT
            !.confirmationCodeWrongAttemptsCount = @ + 1,
            !.blockedUntil = IF shouldBeBlocked THEN t + c.BlockDuration ELSE @]
    IN {IF Where(r) THEN Set(r) ELSE r : r \in table}

----------------------------------------------------------------------------
(* Session Finalizer *)

\* finishAuthProcess, lines 165-171: the metadata_update CTE. A data-
\* modifying WITH runs to completion whatever the main UPDATE matches.
metadataUpdate(table, userID, md) ==
    {r \in table : r.userID # userID} \cup {[userID |-> userID, metadata |-> md]}

\* The UPDATE keyed on the primary key alone, without the version stamp.
finishAuthProcessWhereNoSeq(id, issuedTokenSeq, r) == ByPk(id, r)

\* finishAuthProcess, lines 172-182: the rows the UPDATE matches.
finishAuthProcessWhere(id, issuedTokenSeq, r) ==
    ByPk(id, r) /\ r.issuedTokenSeq = issuedTokenSeq

\* The SET list with the sequence stepped the wrong way.
finishAuthProcessSetBackwards(r, t, userID, emailConfirmed) ==
    [r EXCEPT
        !.tokenIssuedAt = t,
        !.userID = userID,
        !.emailConfirmedAt = IF emailConfirmed THEN t ELSE NoTime,
        !.phoneNumberToEmailMigrationUserID = NULL,
        !.issuedTokenSeq = r.issuedTokenSeq - 1,
        !.previouslyIssuedTokenSeq = r.issuedTokenSeq - 1]

\* The SET list that also clears the wrong-attempt counter.
finishAuthProcessSetResetsCount(r, t, userID, emailConfirmed) ==
    [r EXCEPT
        !.tokenIssuedAt = t,
        !.userID = userID,
        !.emailConfirmedAt = IF emailConfirmed THEN t ELSE NoTime,
        !.phoneNumberToEmailMigrationUserID = NULL,
        !.confirmationCodeWrongAttemptsCount = 0,
        !.issuedTokenSeq = r.issuedTokenSeq + 1,
        !.previouslyIssuedTokenSeq = r.issuedTokenSeq + 1]

\* The SET list that keeps an earlier email_confirmed_at when the email is
\* not confirmed by this call.
finishAuthProcessSetKeepsEmailConfirmedAt(r, t, userID, emailConfirmed) ==
    [r EXCEPT
        !.tokenIssuedAt = t,
        !.userID = userID,
        !.emailConfirmedAt = IF emailConfirmed THEN t ELSE @,
        !.phoneNumberToEmailMigrationUserID = NULL,
        !.issuedTokenSeq = r.issuedTokenSeq + 1,
        !.previouslyIssuedTokenSeq = r.issuedTokenSeq + 1]

\* The SET list that leaves the token sequence where it was.
finishAuthProcessSetKeepsSeq(r, t, userID, emailConfirmed) ==
    [r EXCEPT
        !.tokenIssuedAt = t,
        !.userID = userID,
        !.emailConfirmedAt = IF emailConfirmed THEN t ELSE NoTime,
        !.phoneNumberToEmailMigrationUserID = NULL]

\* finishAuthProcess, lines 172-178: the SET list.
finishAuthProcessSet(r, t, userID, emailConfirmed) ==
    [r EXCEPT
        !.tokenIssuedAt = t,
        !.userID = userID,
        !.emailConfirmedAt = IF emailConfirmed THEN t ELSE NoTime,
        !.phoneNumberToEmailMigrationUserID = NULL,
        !.issuedTokenSeq = r.issuedTokenSeq + 1,
        !.previouslyIssuedTokenSeq = r.issuedTokenSeq + 1]

\* generateTokens: the claims the tokens carry.
generateTokens(issuedAt, e, issuedTokenSeq) ==
    [seq |-> issuedTokenSeq, userID |-> e.userID, issuedAt |-> issuedAt]

----------------------------------------------------------------------------
(* Reset / rotation *)

\* The refund that clears the counter instead of taking one attempt off.
decrementIPLoginAttemptsToZero(n) == 0

\* The refund without GREATEST(..., 0).
decrementIPLoginAttemptsNoFloor(n) == n - 1

\* resetLoginSession (SignIn), lines 203-207: GREATEST(login_attempts - 1, 0)
decrementIPLoginAttempts(n) == IF n - 1 > 0 THEN n - 1 ELSE 0

\* The rotation keyed on the sequence the call had read, not on the advanced one.
resetLoginSessionWhereStaleSeq(id, prevConfirmationCode, seq, r) ==
    /\ ByPk(id, r)
    /\ r.confirmationCode = prevConfirmationCode
    /\ r.issuedTokenSeq = seq - 1

\* resetLoginSession (SignIn), lines 210-215
resetLoginSessionWhere(id, prevConfirmationCode, seq, r) ==
    /\ ByPk(id, r)
    /\ r.confirmationCode = prevConfirmationCode
    /\ r.issuedTokenSeq = seq

\* resetLoginSession (Status), part_001 lines 45-56
statusResetLoginSessionWhere(id, e, prevConfirmationCode, r) ==
    /\ ByPk(id, r)
    /\ r.otp = e.otp
    /\ r.confirmationCode = prevConfirmationCode
    /\ r.issuedTokenSeq = e.issuedTokenSeq

----------------------------------------------------------------------------
(* Sign-In Record Store reads *)

\* The identity the record resolves to: its user_id once set, else the
\* account found for the email.
resolveUserID(r) == IF r.userID # NULL THEN r.userID ELSE "u1"

storedMetadata(userID) ==
    IF \E m \in accountMetadata : m.userID = userID
    THEN (CHOOSE m \in accountMetadata : m.userID = userID).metadata
    ELSE NoMetadata

\* getEmailLinkSignInByPk: the row of the key with its resolved identity
\* and that identity's metadata.
getEmailLinkSignInByPk(id) ==
    {[email |-> r.email, deviceUniqueID |-> r.deviceUniqueID, createdAt |-> r.createdAt,
      tokenIssuedAt |-> r.tokenIssuedAt, blockedUntil |-> r.blockedUntil,
      emailConfirmedAt |-> r.emailConfirmedAt, issuedTokenSeq |-> r.issuedTokenSeq,
      previouslyIssuedTokenSeq |-> r.previouslyIssuedTokenSeq,
      confirmationCodeWrongAttemptsCount |-> r.confirmationCodeWrongAttemptsCount,
      confirmationCode |-> r.confirmationCode, otp |-> r.otp,
      userID |-> resolveUserID(r),
      phoneNumberToEmailMigrationUserID |-> r.phoneNumberToEmailMigrationUserID,
      metadata |-> storedMetadata(resolveUserID(r))]
     : r \in {x \in emailLinkSignIns : ByPk(id, x)}}

\* getConfirmedEmailLinkSignIn: the row of the key holding the token's code.
getConfirmedEmailLinkSignIn(id, confirmationCode) ==
    {[e EXCEPT !.userID = IF \E r \in emailLinkSignIns : ByPk(id, r) /\ r.userID # NULL
                           THEN e.userID ELSE NULL]
     : e \in {x \in getEmailLinkSignInByPk(id) : x.confirmationCode = confirmationCode}}

----------------------------------------------------------------------------
(* Initial states *)

InitTables ==
    /\ emailLinkSignIns = {}
    /\ accountMetadata = {}
    /\ signInsPerIP = {}
    /\ userEmail = [u \in UserIDs |-> "old@x.com"]
    /\ firebaseEmail = [u \in UserIDs |-> "old@x.com"]

\* No deleteUser call is running.
NoDeleteUser ==
    [pc |-> "idle", err |-> {}, ctxDone |-> FALSE, ctxCancellable |-> FALSE,
     attempts |-> 0, depth |-> 0]

InitProcs ==
    /\ deleteUserCall = NoDeleteUser
    /\ pc = [p \in Procs |-> "idle"]
    /\ args = [p \in Procs |-> NoArgs]
    /\ els = [p \in Procs |-> NoEls]
    /\ ret = [p \in Procs |-> NoRet]
    /\ hist = [p \in Procs |-> NoHist]

Init ==
    /\ now = 0
    /\ cfg = [MaxWrongAttemptsCount |-> SmallMaxWrongAttempts,
              BlockDuration |-> BlockDurationTicks]
    /\ InitTables
    /\ InitProcs
    /\ budget = [calls |-> MaxCalls, links |-> MaxLinks, updates |-> MaxUpdates,
                 ticks |-> MaxTime]

----------------------------------------------------------------------------
(* Environment *)

Tick ==
    /\ budget.ticks > 0
    /\ budget' = [budget EXCEPT !.ticks = @ - 1]
    /\ now' = now + 1
    /\ UNCHANGED <<deleteUserCall, cfg, emailLinkSignIns, accountMetadata, signInsPerIP, userEmail,
                   firebaseEmail, pc, args, els, ret, hist>>

\* Rate Limiter admit: one more attempt for (ip, session); the CHECK
\* constraint of sign_ins_per_ip rejects a value above 10.
admit(table, ip, lsn) ==
    LET hit == {r \in table : r.ip = ip /\ r.loginSessionNumber = lsn}
    IN IF hit = {}
       THEN table \cup {[ip |-> ip, loginSessionNumber |-> lsn, loginAttempts |-> 1]}
       ELSE {IF r \in hit THEN [r EXCEPT !.loginAttempts = @ + 1] ELSE r : r \in table}

checkLoginAttempts(table) == \A r \in table : r.loginAttempts <= MaxLoginAttemptsPerIP

\* The table without its primary key: no insert ever conflicts.
conflictsOnPrimaryKeyNever(table, id) == FALSE

\* email_link_sign_ins, primary key(email, device_unique_id): an insert of
\* the key conflicts with the row that is already there.
conflictsOnPrimaryKey(table, id) == \E r \in table : ByPk(id, r)

\* createOrRenew: insert the row of the key, or renew its secrets.
createOrRenew(table, id, t, code, otp, migrationUserID) ==
    IF conflictsOnPrimaryKey(table, id)
    THEN {IF ByPk(id, r) THEN [r EXCEPT !.confirmationCode = code, !.otp = otp] ELSE r
          : r \in table}
    ELSE table \cup
         {[email |-> id.email, deviceUniqueID |-> id.deviceUniqueID, createdAt |-> t,
           tokenIssuedAt |-> NoTime, blockedUntil |-> NoTime, emailConfirmedAt |-> NoTime,
           issuedTokenSeq |-> 0, previouslyIssuedTokenSeq |-> 0,
           confirmationCodeWrongAttemptsCount |-> 0, confirmationCode |-> code,
           otp |-> otp, userID |-> NULL,
           phoneNumberToEmailMigrationUserID |-> migrationUserID]}

\* RequestLink(email, deviceID): admitted by the Rate Limiter, then the
\* record is created or renewed.
RequestLink(code, migrationUserID) ==
    /\ budget.links > 0
    /\ budget' = [budget EXCEPT !.links = @ - 1]
    /\ LET admitted == admit(signInsPerIP, "ip1", 1)
       IN IF checkLoginAttempts(admitted)
          THEN /\ signInsPerIP' = admitted
               /\ emailLinkSignIns' =
                    createOrRenew(emailLinkSignIns, ID, now, code, "o1", migrationUserID)
          ELSE UNCHANGED <<signInsPerIP, emailLinkSignIns>>
    /\ UNCHANGED <<deleteUserCall, now, cfg, accountMetadata, userEmail, firebaseEmail,
                   pc, args, els, ret, hist>>

\* The identity subsystem, owner of account_metadata, rewrites a user's row.
UpdateMetadata(userID, md) ==
    /\ budget.updates > 0
    /\ storedMetadata(userID) # md
    /\ budget' = [budget EXCEPT !.updates = @ - 1]
    /\ accountMetadata' = metadataUpdate(accountMetadata, userID, md)
    /\ UNCHANGED <<deleteUserCall, now, cfg, emailLinkSignIns, signInsPerIP, userEmail, firebaseEmail,
                   pc, args, els, ret, hist>>

\* The link is confirmed for the polling device: otp becomes the user id.
ConfirmOTP ==
    /\ \E r \in emailLinkSignIns : ByPk(ID, r) /\ r.userID # NULL /\ r.otp # r.userID
    /\ emailLinkSignIns' =
         {IF ByPk(ID, r) THEN [r EXCEPT !.otp = r.userID] ELSE r : r \in emailLinkSignIns}
    /\ UNCHANGED <<deleteUserCall, now, cfg, accountMetadata, signInsPerIP, userEmail, firebaseEmail,
                   pc, args, els, ret, hist, budget>>

----------------------------------------------------------------------------
(* SignIn *)

\* The call returns r (els keeps what the call had read, for the record).
Return(p, r, h) ==
    /\ pc' = [pc EXCEPT ![p] = "done"]
    /\ ret' = [ret EXCEPT ![p] = r]
    /\ hist' = [hist EXCEPT ![p] = h]
    /\ UNCHANGED els

\* The call goes on to its next storage call.
Goto(p, label, r, h) ==
    /\ pc' = [pc EXCEPT ![p] = label]
    /\ ret' = [ret EXCEPT ![p] = r]
    /\ hist' = [hist EXCEPT ![p] = h]
    /\ UNCHANGED els

\* The call has read the row into e and goes on.
Enter(p, e, label, r, h) ==
    /\ pc' = [pc EXCEPT ![p] = label]
    /\ ret' = [ret EXCEPT ![p] = r]
    /\ hist' = [hist EXCEPT ![p] = h]
    /\ els' = [els EXCEPT ![p] = e]

\* SignIn, lines 30-32: the error for a lookup that finds no record.
lookupNotFound == {ErrNoConfirmationRequired}

\* finishAuthProcess, lines 185-187: the error for an UPDATE of zero rows.
raceLost == {ErrNoConfirmationRequired}

\* The error of parseJwtToken dropped.
tokenNeverRejected(tokenValid) == FALSE

\* SignIn, lines 23-25, and Status, part_001 lines 15-17: the call returns
\* as soon as parseJwtToken fails.
tokenRejected(tokenValid) == ~tokenValid

\* SignIn, lines 20-35: parse the flow token, read the record. ctxDone: the
\* caller's context is already cancelled; SignIn hands it to the store
\* unexamined, and the store may then refuse the read (line 34).
SignInBegin(p, tokenValid, confirmationCode, oldEmail, clientIP, loginSessionNumber, ctxDone) ==
    /\ pc[p] \in {"idle", "done"}
    /\ budget.calls > 0
    /\ budget' = [budget EXCEPT !.calls = @ - 1]
    /\ args' = [args EXCEPT ![p] =
            [op |-> "SignIn", tokenValid |-> tokenValid,
             confirmationCode |-> confirmationCode, oldEmail |-> oldEmail,
             clientIP |-> clientIP, loginSessionNumber |-> loginSessionNumber, now |-> now,
             ctxDone |-> ctxDone]]
    /\ \E readFails \in {FALSE, ctxDone} :
          IF tokenRejected(tokenValid)
          THEN /\ ~readFails
               /\ Enter(p, NoEls, "done", [NoRet EXCEPT !.err = {ErrInvalidToken}], NoHist)
          ELSE IF readFails
          THEN Enter(p, NoEls, "done", [NoRet EXCEPT !.err = {ErrStorage}],
                     [NoHist EXCEPT !.read = TRUE])
          ELSE IF getEmailLinkSignInByPk(ID) = {}
          THEN Enter(p, NoEls, "done", [NoRet EXCEPT !.err = lookupNotFound],
                     [NoHist EXCEPT !.read = TRUE])
          ELSE LET e == CHOOSE x \in getEmailLinkSignInByPk(ID) : TRUE
               IN Enter(p, e, "signIn", NoRet,
                        [NoHist EXCEPT !.read = TRUE, !.found = TRUE])
    /\ UNCHANGED <<deleteUserCall, now, cfg, emailLinkSignIns, accountMetadata, signInsPerIP,
                   userEmail, firebaseEmail>>

\* The terminal marker honoured only on a record with wrong attempts.
tokensAlreadyProvidedAfterWrongAttempt(e) ==
    e.userID # NULL /\ e.confirmationCode = e.userID
    /\ e.confirmationCodeWrongAttemptsCount > 0

\* The terminal-marker check left out.
tokensNeverProvided(e) == FALSE

\* signIn, lines 56-58: the terminal marker, tokens were already provided.
tokensAlreadyProvided(e) == e.userID # NULL /\ e.confirmationCode = e.userID

\* The compensation branch never taken.
compensatesNever(oldEmail) == FALSE

\* signIn, line 72: is the email change compensated when finalize fails?
compensatesEmailModification(oldEmail) == oldEmail # ""

\* The email change never run before finalize.
needsEmailModificationNever(e, oldEmail) == FALSE

\* signIn, line 62: does the call run handleEmailModification?
needsEmailModification(e, oldEmail) ==
    oldEmail # "" \/ (e.phoneNumberToEmailMigrationUserID # NULL
                      /\ e.phoneNumberToEmailMigrationUserID # "")

\* A failed increment treated as fatal: its error returned alone.
appendIncrementErrFatal(mErr, iErr) == IF iErr # {} THEN iErr ELSE mErr

\* verifySignIn, lines 106-112: the error of a failed increment is appended
\* to the errors gathered so far, next to ErrConfirmationCodeWrong (mErr
\* holds it already); multierror.Append skips a nil iErr.
appendIncrementErr(mErr, iErr) == mErr \cup iErr

\* signIn, lines 56-61 with verifySignIn: the terminal-marker check, then
\* the verification and its write (which may fail in the store).
SignInVerify(p, writeFails) ==
    /\ pc[p] = "signIn"
    /\ LET e == els[p]
           v == verifySignIn(e, args[p].confirmationCode, now, cfg)
           h == [hist[p] EXCEPT !.verifiedAt = now, !.verifyErr = v.err,
                                !.wrote = v.write /\ ~writeFails]
       IN IF tokensAlreadyProvided(e)
          THEN /\ ~writeFails
               /\ Return(p, [NoRet EXCEPT !.err = {ErrNoPendingLoginSession}], hist[p])
               /\ UNCHANGED emailLinkSignIns
          ELSE IF v.write
          THEN /\ emailLinkSignIns' =
                    IF writeFails THEN emailLinkSignIns
                    ELSE increaseWrongConfirmationCodeAttemptsCount(
                            emailLinkSignIns, ID, v.block, now, cfg)
               /\ Return(p, [NoRet EXCEPT !.err =
                        appendIncrementErr(v.err, IF writeFails THEN {ErrStorage} ELSE {})],
                    [h EXCEPT !.verifyErr = appendIncrementErr(v.err, IF writeFails THEN {ErrStorage} ELSE {})])
          ELSE /\ ~writeFails
               /\ UNCHANGED emailLinkSignIns
               /\ IF v.err # {}
                  THEN Return(p, [NoRet EXCEPT !.err = v.err], h)
                  ELSE IF needsEmailModification(e, args[p].oldEmail)
                  THEN Goto(p, "handleEmailModification", ret[p], h)
                  ELSE Goto(p, "finishAuthProcess", ret[p], h)
    /\ UNCHANGED <<deleteUserCall, now, cfg, accountMetadata, signInsPerIP, userEmail, firebaseEmail,
                   args, budget>>

\* Every email modification taken as a confirmation of the email.
emailConfirmedByModification(oldEmail) == TRUE

\* signIn, line 66: the flag set after handleEmailModification.
emailConfirmed(oldEmail) == oldEmail # ""

\* handleEmailModification: the account's email becomes the new email, at
\* the account and at the identity provider.
HandleEmailModification(p, fails) ==
    /\ pc[p] = "handleEmailModification"
    /\ IF fails
       THEN /\ Return(p, [NoRet EXCEPT !.err = {ErrStorage}], hist[p])
            /\ UNCHANGED <<userEmail, firebaseEmail>>
       ELSE /\ userEmail' = [userEmail EXCEPT ![els[p].userID] = ID.email]
            /\ firebaseEmail' = [firebaseEmail EXCEPT ![els[p].userID] = ID.email]
            /\ Goto(p, "finishAuthProcess",
                    [ret[p] EXCEPT !.emailConfirmed = emailConfirmed(args[p].oldEmail)],
                    [hist[p] EXCEPT !.modified = TRUE])
    /\ UNCHANGED <<deleteUserCall, now, cfg, emailLinkSignIns, accountMetadata, signInsPerIP,
                   args, budget>>

\* signIn line 69 with finishAuthProcess, lines 137-193, then SignIn lines
\* 40-44 on success or signIn lines 70-83 on failure.
FinishAuthProcess(p, fails) ==
    /\ pc[p] = "finishAuthProcess"
    /\ LET e == els[p]
           Where(r) == finishAuthProcessWhere(ID, e.issuedTokenSeq, r)
           Set(r) == finishAuthProcessSet(r, args[p].now, e.userID, ret[p].emailConfirmed)
           updated == {Set(r) : r \in {x \in emailLinkSignIns : Where(x)}}
           fErr == IF fails THEN {ErrStorage}
                   ELSE IF updated = {} THEN raceLost ELSE {}
           outcome == IF fails THEN "failed" ELSE IF updated = {} THEN "lost" ELSE "ok"
           h == [hist[p] EXCEPT !.finalize = outcome, !.finalizeErr = fErr,
                                !.finalizeRet = IF outcome = "ok"
                                    THEN (CHOOSE r \in updated : TRUE).issuedTokenSeq ELSE 0]
       IN /\ IF fails
             THEN UNCHANGED <<emailLinkSignIns, accountMetadata>>
             ELSE /\ accountMetadata' =
                        metadataUpdate(accountMetadata, e.userID, mdToUpdate(e.userID, e.metadata))
                  /\ emailLinkSignIns' = {IF Where(r) THEN Set(r) ELSE r : r \in emailLinkSignIns}
          /\ IF fErr = {}
             THEN LET seq == (CHOOSE r \in updated : TRUE).issuedTokenSeq
                  IN Goto(p, "resetLoginSession",
                          [ret[p] EXCEPT !.issuedTokenSeq = seq,
                                         !.tokens = generateTokens(args[p].now, e, seq)], h)
             ELSE IF compensatesEmailModification(args[p].oldEmail)
             THEN Goto(p, "resetEmailModification", [ret[p] EXCEPT !.err = fErr], h)
             ELSE Return(p, [NoRet EXCEPT !.err = fErr], h)
    /\ UNCHANGED <<deleteUserCall, now, cfg, signInsPerIP, userEmail, firebaseEmail, args, budget>>

\* signIn, lines 73-75: resetEmailModification(userID, oldEmail)
ResetEmailModification(p, fails) ==
    /\ pc[p] = "resetEmailModification"
    /\ userEmail' = IF fails THEN userEmail
                    ELSE [userEmail EXCEPT ![els[p].userID] = args[p].oldEmail]
    /\ Goto(p, "resetFirebaseEmailModification",
            [ret[p] EXCEPT !.err = IF fails THEN @ \cup {ErrResetEmailModification} ELSE @],
            [hist[p] EXCEPT !.resetEmail = IF fails THEN "failed" ELSE "ok"])
    /\ UNCHANGED <<deleteUserCall, now, cfg, emailLinkSignIns, accountMetadata, signInsPerIP,
                   firebaseEmail, args, budget>>

\* signIn, lines 76-82: resetFirebaseEmailModification(md, oldEmail), then
\* the aggregated error is returned.
ResetFirebaseEmailModification(p, fails) ==
    /\ pc[p] = "resetFirebaseEmailModification"
    /\ firebaseEmail' = IF fails THEN firebaseEmail
                        ELSE [firebaseEmail EXCEPT ![els[p].userID] = args[p].oldEmail]
    /\ Return(p, [NoRet EXCEPT !.err =
                    ret[p].err \cup (IF fails THEN {ErrResetFirebaseEmailModification} ELSE {})],
              [hist[p] EXCEPT !.resetFirebase = IF fails THEN "failed" ELSE "ok"])
    /\ UNCHANGED <<deleteUserCall, now, cfg, emailLinkSignIns, accountMetadata, signInsPerIP,
                   userEmail, args, budget>>

\* The refund tied to the rewrite of the confirmation code: none when the
\* rewrite matched no row.
decrementIPAttemptsOnRewrite(rewritten, clientIP, loginSessionNumber) ==
    rewritten /\ clientIP # "" /\ loginSessionNumber > 0

\* resetLoginSession, lines 199-208: the statement carries the CTE
\* decrement_ip_login_attempts. A data-modifying WITH runs to completion
\* whether or not the main UPDATE rewrote a row (rewritten).
decrementIPAttempts(rewritten, clientIP, loginSessionNumber) ==
    clientIP # "" /\ loginSessionNumber > 0

\* SignIn lines 45-49 with resetLoginSession, lines 196-220.
ResetLoginSession(p, fails) ==
    /\ pc[p] = "resetLoginSession"
    /\ LET e == els[p]
           Where(r) == resetLoginSessionWhere(ID, args[p].confirmationCode,
                                              e.issuedTokenSeq + 1, r)
           Set(r) == [r EXCEPT !.confirmationCode = e.userID]
           WhereIP(r) == r.ip = args[p].clientIP
                         /\ r.loginSessionNumber = args[p].loginSessionNumber
           SetIP(r) == [r EXCEPT !.loginAttempts = decrementIPLoginAttempts(@)]
       IN IF fails
          THEN /\ UNCHANGED <<emailLinkSignIns, signInsPerIP>>
               /\ Return(p, [NoRet EXCEPT !.err = {ErrStorage}],
                         [hist[p] EXCEPT !.rotation = "failed"])
          ELSE /\ emailLinkSignIns' = {IF Where(r) THEN Set(r) ELSE r : r \in emailLinkSignIns}
               /\ signInsPerIP' =
                    IF decrementIPAttempts({r \in emailLinkSignIns : Where(r)} # {},
                                           args[p].clientIP, args[p].loginSessionNumber)
                    THEN {IF WhereIP(r) THEN SetIP(r) ELSE r : r \in signInsPerIP}
                    ELSE signInsPerIP
               /\ Return(p, ret[p],
                         [hist[p] EXCEPT !.rotation =
                            IF {r \in emailLinkSignIns : Where(r)} # {} THEN "ok" ELSE "missed"])
    /\ UNCHANGED <<deleteUserCall, now, cfg, accountMetadata, userEmail, firebaseEmail, args, budget>>

----------------------------------------------------------------------------
(* Status *)

\* The check of line 27 on the user id alone.
statusNotVerifiedUserIDOnly(e) == e.userID = NULL

\* Status, part_001 lines 27-29: the link was not confirmed for this device.
statusNotVerified(e) == e.userID = NULL \/ e.otp # e.userID

\* The terminal-marker check of Status left out.
statusTokensNeverProvided(e) == FALSE

\* Status, part_001 lines 30-32: tokens were already provided for the code.
statusTokensAlreadyProvided(e) == e.confirmationCode = e.userID

\* Status, part_001 lines 13-36: parse the session token, read the
\* confirmed record, check it, generate the tokens.
StatusBegin(p, tokenValid, confirmationCode) ==
    /\ pc[p] \in {"idle", "done"}
    /\ budget.calls > 0
    /\ budget' = [budget EXCEPT !.calls = @ - 1]
    /\ args' = [args EXCEPT ![p] =
            [NoArgs EXCEPT !.op = "Status", !.tokenValid = tokenValid,
                           !.confirmationCode = confirmationCode, !.now = now]]
    /\ LET found == getConfirmedEmailLinkSignIn(ID, confirmationCode)
           e == CHOOSE x \in found : TRUE
       IN IF tokenRejected(tokenValid)
          THEN Enter(p, NoEls, "done", [NoRet EXCEPT !.err = {ErrInvalidToken}], NoHist)
          ELSE IF found = {}
          THEN Enter(p, NoEls, "done", [NoRet EXCEPT !.err = {ErrNoPendingLoginSession}],
                     [NoHist EXCEPT !.read = TRUE])
          ELSE IF statusNotVerified(e)
          THEN Enter(p, e, "done", [NoRet EXCEPT !.err = {ErrStatusNotVerified}],
                     [NoHist EXCEPT !.read = TRUE, !.found = TRUE])
          ELSE IF statusTokensAlreadyProvided(e)
          THEN Enter(p, e, "done", [NoRet EXCEPT !.err = {ErrNoPendingLoginSession}],
                     [NoHist EXCEPT !.read = TRUE, !.found = TRUE])
          ELSE Enter(p, e, "statusResetLoginSession",
                     [NoRet EXCEPT
                         !.tokens = generateTokens(e.tokenIssuedAt, e, e.issuedTokenSeq),
                         !.issuedTokenSeq = e.issuedTokenSeq],
                     [NoHist EXCEPT !.read = TRUE, !.found = TRUE])
    /\ UNCHANGED <<deleteUserCall, now, cfg, emailLinkSignIns, accountMetadata, signInsPerIP,
                   userEmail, firebaseEmail>>

\* The rewrite that also advances the token sequence.
statusResetLoginSessionSetAdvancesSeq(r, userID) ==
    [r EXCEPT !.confirmationCode = userID, !.issuedTokenSeq = @ + 1]

\* resetLoginSession (Status), part_001 lines 46-47: the SET list.
statusResetLoginSessionSet(r, userID) == [r EXCEPT !.confirmationCode = userID]

\* Status, part_001 lines 37-42 with its resetLoginSession, lines 45-56.
StatusResetLoginSession(p, fails) ==
    /\ pc[p] = "statusResetLoginSession"
    /\ LET e == els[p]
           Where(r) == statusResetLoginSessionWhere(ID, e, args[p].confirmationCode, r)
           Set(r) == statusResetLoginSessionSet(r, e.userID)
       IN IF fails
          THEN /\ UNCHANGED emailLinkSignIns
               /\ Return(p, [NoRet EXCEPT !.err = {ErrStorage}],
                         [hist[p] EXCEPT !.rotation = "failed"])
          ELSE /\ emailLinkSignIns' = {IF Where(r) THEN Set(r) ELSE r : r \in emailLinkSignIns}
               /\ Return(p, [ret[p] EXCEPT !.emailConfirmed = (e.emailConfirmedAt # NoTime)],
                         [hist[p] EXCEPT !.rotation =
                            IF {r \in emailLinkSignIns : Where(r)} # {} THEN "ok" ELSE "missed"])
    /\ UNCHANGED <<deleteUserCall, now, cfg, accountMetadata, signInsPerIP, userEmail, firebaseEmail,
                   args, budget>>

----------------------------------------------------------------------------
(* The engine under concurrent requests *)

\* The flow tokens and codes presented to SignIn.
SignInInput(v, code, old, ip, lsn) ==
    [tokenValid |-> v, confirmationCode |-> code, oldEmail |-> old,
     clientIP |-> ip, loginSessionNumber |-> lsn]

InvalidToken == SignInInput(FALSE, "c1", "", "", 0)

SignInInputs ==
    {InvalidToken} \cup
    {SignInInput(TRUE, code, old, "ip1", 1) : code \in Codes, old \in {"", "old@x.com"}}

MetadataValues ==
    {[iceID |-> NULL, firebaseID |-> "fb1", registeredWithProvider |-> NULL],
     [iceID |-> "ice_u2", firebaseID |-> NULL, registeredWithProvider |-> NULL]}

SignInSteps(p) ==
    \/ \E f \in BOOLEAN : SignInVerify(p, f)
    \/ \E f \in BOOLEAN : HandleEmailModification(p, f)
    \/ \E f \in BOOLEAN : FinishAuthProcess(p, f)
    \/ \E f \in BOOLEAN : ResetEmailModification(p, f)
    \/ \E f \in BOOLEAN : ResetFirebaseEmailModification(p, f)
    \/ \E f \in BOOLEAN : ResetLoginSession(p, f)

Next ==
    \/ Tick
    \/ \E code \in Codes : RequestLink(code, NULL)
    \/ ConfirmOTP
    \/ \E p \in Procs, i \in SignInInputs :
          SignInBegin(p, i.tokenValid, i.confirmationCode, i.oldEmail,
                      i.clientIP, i.loginSessionNumber, FALSE)
    \/ \E p \in Procs : SignInSteps(p)
    \/ \E p \in Procs, v \in BOOLEAN, code \in Codes : StatusBegin(p, v, code)
    \/ \E p \in Procs, f \in BOOLEAN : StatusResetLoginSession(p, f)

Spec == Init /\ [][Next]_vars

----------------------------------------------------------------------------
(* Racing sign-ins next to the identity subsystem's metadata writes *)

InitMeta ==
    /\ now = 0
    /\ cfg = [MaxWrongAttemptsCount |-> SmallMaxWrongAttempts,
              BlockDuration |-> BlockDurationTicks]
    /\ InitTables
    /\ InitProcs
    /\ budget = [calls |-> MaxCalls, links |-> MaxLinks, updates |-> MaxUpdates,
                 ticks |-> 0]

NextMeta ==
    \/ \E code \in Codes : RequestLink(code, NULL)
    \/ \E u \in UserIDs, md \in MetadataValues : UpdateMetadata(u, md)
    \/ \E p \in Procs, code \in Codes : SignInBegin(p, TRUE, code, "", "", 0, FALSE)
    \/ \E p \in Procs : SignInVerify(p, FALSE)
    \/ \E p \in Procs, f \in BOOLEAN : FinishAuthProcess(p, f)
    \/ \E p \in Procs, f \in BOOLEAN : ResetLoginSession(p, f)

SpecMeta == InitMeta /\ [][NextMeta]_vars

----------------------------------------------------------------------------
(* One client alone: a run of sign-in attempts on a fresh record *)

InitSeq ==
    /\ now = 0
    /\ cfg = [MaxWrongAttemptsCount |-> ScenarioMaxWrongAttempts,
              BlockDuration |-> BlockDurationTicks]
    /\ emailLinkSignIns = createOrRenew({}, ID, 0, "c1", "o1", NULL)
    /\ accountMetadata = {}
    /\ signInsPerIP = admit({}, "ip1", 1)
    /\ userEmail = [u \in UserIDs |-> "alice@x.com"]
    /\ firebaseEmail = [u \in UserIDs |-> "alice@x.com"]
    /\ InitProcs
    /\ budget = [calls |-> ScenarioMaxCalls, links |-> 0, updates |-> 0,
                 ticks |-> ScenarioMaxTime]

NextSeq ==
    \/ Tick
    \/ \E code \in Codes : SignInBegin("p1", TRUE, code, "", "ip1", 1, FALSE)
    \/ SignInVerify("p1", FALSE)
    \/ FinishAuthProcess("p1", FALSE)
    \/ ResetLoginSession("p1", FALSE)

SpecSeq == InitSeq /\ [][NextSeq]_vars

----------------------------------------------------------------------------
(* The Rate Limiter under repeated link requests and racing sign-ins *)

InitRate ==
    /\ now = 0
    /\ cfg = [MaxWrongAttemptsCount |-> SmallMaxWrongAttempts,
              BlockDuration |-> BlockDurationTicks]
    /\ InitTables
    /\ InitProcs
    /\ budget = [calls |-> RateMaxCalls, links |-> RateMaxLinks, updates |-> 0,
                 ticks |-> 0]

NextRate ==
    \/ RequestLink("c1", NULL)
    \/ \E p \in Procs, ipl \in {<<"", 0>>, <<"ip1", 0>>, <<"ip1", 1>>} :
          SignInBegin(p, TRUE, "c1", "", ipl[1], ipl[2], FALSE)
    \/ \E p \in Procs : SignInVerify(p, FALSE)
    \/ \E p \in Procs : FinishAuthProcess(p, FALSE)
    \/ \E p \in Procs : ResetLoginSession(p, FALSE)

SpecRate == InitRate /\ [][NextRate]_vars

----------------------------------------------------------------------------
(* Sign-ins that change the account's email *)

InitEmail ==
    /\ now = 0
    /\ cfg = [MaxWrongAttemptsCount |-> SmallMaxWrongAttempts,
              BlockDuration |-> BlockDurationTicks]
    /\ InitTables
    /\ InitProcs
    /\ budget = [calls |-> MaxCalls, links |-> MaxLinks, updates |-> 0, ticks |-> 0]

NextEmail ==
    \/ \E mig \in {NULL, "u1"} : RequestLink("c1", mig)
    \/ \E p \in Procs, old \in {"", "old@x.com"} : SignInBegin(p, TRUE, "c1", old, "", 0, FALSE)
    \/ \E p \in Procs : SignInVerify(p, FALSE)
    \/ \E p \in Procs, f \in BOOLEAN : HandleEmailModification(p, f)
    \/ \E p \in Procs, f \in BOOLEAN : FinishAuthProcess(p, f)
    \/ \E p \in Procs, f \in BOOLEAN : ResetEmailModification(p, f)
    \/ \E p \in Procs, f \in BOOLEAN : ResetFirebaseEmailModification(p, f)
    \/ \E p \in Procs : ResetLoginSession(p, FALSE)

SpecEmail == InitEmail /\ [][NextEmail]_vars

----------------------------------------------------------------------------
(* Cross-device polling: one sign-in, then Status calls on its record *)

InitStatus ==
    /\ now = 0
    /\ cfg = [MaxWrongAttemptsCount |-> SmallMaxWrongAttempts,
              BlockDuration |-> BlockDurationTicks]
    /\ InitTables
    /\ InitProcs
    /\ budget = [calls |-> StatusMaxCalls, links |-> MaxLinks, updates |-> 0,
                 ticks |-> MaxTime]

\* The session tokens presented to Status carry the code of the link or,
\* for a token issued after the rotation, the user id.
NextStatus ==
    \/ Tick
    \/ RequestLink("c1", NULL)
    \/ ConfirmOTP
    \/ \E p \in Procs : SignInBegin(p, TRUE, "c1", "", "", 0, FALSE)
    \/ \E p \in Procs : SignInVerify(p, FALSE)
    \/ \E p \in Procs : FinishAuthProcess(p, FALSE)
    \/ \E p \in Procs, f \in BOOLEAN : ResetLoginSession(p, f)
    \/ \E p \in Procs, code \in {"c1"} \cup UserIDs : StatusBegin(p, TRUE, code)
    \/ \E p \in Procs, f \in BOOLEAN : StatusResetLoginSession(p, f)

SpecStatus == InitStatus /\ [][NextStatus]_vars

----------------------------------------------------------------------------
(* Sign-ins of callers whose context may already be cancelled *)

InitCancel ==
    /\ now = 0
    /\ cfg = [MaxWrongAttemptsCount |-> SmallMaxWrongAttempts,
              BlockDuration |-> BlockDurationTicks]
    /\ InitTables
    /\ InitProcs
    /\ budget = [calls |-> MaxCalls, links |-> MaxLinks, updates |-> 0, ticks |-> 0]

NextCancel ==
    \/ RequestLink("c1", NULL)
    \/ \E p \in Procs, code \in Codes, ctxDone \in BOOLEAN :
          SignInBegin(p, TRUE, code, "", "ip1", 1, ctxDone)
    \/ \E p \in Procs, f \in BOOLEAN : SignInVerify(p, f)
    \/ \E p \in Procs, f \in BOOLEAN : FinishAuthProcess(p, f)
    \/ \E p \in Procs, f \in BOOLEAN : ResetLoginSession(p, f)

SpecCancel == InitCancel /\ [][NextCancel]_vars

----------------------------------------------------------------------------
(* Repeated link requests for one key, next to sign-ins on its record *)

InitLinks ==
    /\ now = 0
    /\ cfg = [MaxWrongAttemptsCount |-> SmallMaxWrongAttempts,
              BlockDuration |-> BlockDurationTicks]
    /\ InitTables
    /\ InitProcs
    /\ budget = [calls |-> MaxCalls, links |-> LinkMaxLinks, updates |-> 0,
                 ticks |-> MaxTime]

NextLinks ==
    \/ Tick
    \/ \E code \in Codes : RequestLink(code, NULL)
    \/ \E p \in Procs, code \in Codes : SignInBegin(p, TRUE, code, "", "ip1", 1, FALSE)
    \/ \E p \in Procs : SignInVerify(p, FALSE)
    \/ \E p \in Procs : FinishAuthProcess(p, FALSE)
    \/ \E p \in Procs : ResetLoginSession(p, FALSE)

SpecLinks == InitLinks /\ [][NextLinks]_vars

----------------------------------------------------------------------------
(* Racing wrong attempts on one record, then further attempts on it *)

InitBlock ==
    /\ now = 0
    /\ cfg = [MaxWrongAttemptsCount |-> SmallMaxWrongAttempts,
              BlockDuration |-> BlockDurationTicks]
    /\ emailLinkSignIns = createOrRenew({}, ID, 0, "c1", "o1", NULL)
    /\ accountMetadata = {}
    /\ signInsPerIP = admit({}, "ip1", 1)
    /\ userEmail = [u \in UserIDs |-> "alice@x.com"]
    /\ firebaseEmail = [u \in UserIDs |-> "alice@x.com"]
    /\ InitProcs
    /\ budget = [calls |-> BlockMaxCalls, links |-> 0, updates |-> 0,
                 ticks |-> MaxTime]

NextBlock ==
    \/ Tick
    \/ \E p \in Procs, code \in Codes : SignInBegin(p, TRUE, code, "", "ip1", 1, FALSE)
    \/ \E p \in Procs : SignInVerify(p, FALSE)
    \/ \E p \in Procs : FinishAuthProcess(p, FALSE)
    \/ \E p \in Procs : ResetLoginSession(p, FALSE)

SpecBlock == InitBlock /\ [][NextBlock]_vars

----------------------------------------------------------------------------
(* Finalize over the metadata an account may carry *)

\* The metadata of an account before the call: with or without a firebase
\* id (a foreign one or one that carries the native prefix), with or
\* without a registered-with-provider claim.
MergeMetadataValues ==
    {[iceID |-> NULL, firebaseID |-> f, registeredWithProvider |-> g] :
        f \in {NULL, "fb1", "ice_f1"}, g \in {NULL, "google"}}

\* The record of a first sign-in, or the record of the native user ice_u2
\* who signed in before (finalized, rotated) and asked for a new link.
InitMerge ==
    /\ now = 0
    /\ cfg = [MaxWrongAttemptsCount |-> SmallMaxWrongAttempts,
              BlockDuration |-> BlockDurationTicks]
    /\ \E native \in BOOLEAN, md \in MergeMetadataValues :
          LET fresh == createOrRenew({}, ID, 0, "c2", "o1", NULL)
              used == {[finishAuthProcessSet(r, 0, "ice_u2", FALSE)
                           EXCEPT !.confirmationCode = "ice_u2"] : r \in fresh}
          IN IF native
             THEN /\ emailLinkSignIns = createOrRenew(used, ID, 0, "c1", "o1", NULL)
                  /\ accountMetadata =
                        {[userID |-> "ice_u2", metadata |-> [md EXCEPT !.iceID = "ice_u2"]]}
             ELSE /\ emailLinkSignIns = createOrRenew(fresh, ID, 0, "c1", "o1", NULL)
                  /\ accountMetadata = {[userID |-> "u1", metadata |-> md]}
    /\ signInsPerIP = {}
    /\ userEmail = [u \in UserIDs |-> "alice@x.com"]
    /\ firebaseEmail = [u \in UserIDs |-> "alice@x.com"]
    /\ InitProcs
    /\ budget = [calls |-> MaxCalls, links |-> 0, updates |-> 0, ticks |-> 0]

NextMerge ==
    \/ \E p \in Procs : SignInBegin(p, TRUE, "c1", "", "", 0, FALSE)
    \/ \E p \in Procs : SignInVerify(p, FALSE)
    \/ \E p \in Procs, f \in BOOLEAN : FinishAuthProcess(p, f)
    \/ \E p \in Procs : ResetLoginSession(p, FALSE)

SpecMerge == InitMerge /\ [][NextMerge]_vars

----------------------------------------------------------------------------
(* users.deleteUser and its retry of updateReferredByForAllT1Referrals *)

\* The answers of the store to the calls of deleteUser: no error, or an
\* error that carries the given sentinels (a multierror may carry several).
UpdateReferredByAnswers == SUBSET {ErrNotFound, ErrRelationNotFound, ErrStorage}

\* Every error retried, the context's error included.
retriesAnyError(err) == err # {}

\* deleteUser, part_002 line 45: the condition of the retry loop.
retries(err) == err # {} /\ (ErrRelationNotFound \in err \/ ErrNotFound \in err)

\* deleteUser returns err.
DeleteUserReturn(err) ==
    deleteUserCall' = [deleteUserCall EXCEPT !.pc = "done", !.err = err]

DeleteUserGoto(label) ==
    deleteUserCall' = [deleteUserCall EXCEPT !.pc = label, !.err = {}]

TablesUnchanged ==
    UNCHANGED <<now, cfg, emailLinkSignIns, accountMetadata, signInsPerIP, userEmail,
                firebaseEmail, pc, args, els, ret, hist, budget>>

\* The caller cancels the context of the call.
CancelContext ==
    /\ deleteUserCall.ctxCancellable /\ ~deleteUserCall.ctxDone
    /\ deleteUserCall.pc \notin {"idle", "done"}
    /\ deleteUserCall' = [deleteUserCall EXCEPT !.ctxDone = TRUE]
    /\ TablesUnchanged

\* deleteUser, part_002 lines 37-40: the context check at the entry, also
\* of the recursive call of line 61.
DeleteUserEnter ==
    /\ deleteUserCall.pc = "deleteUser"
    /\ IF deleteUserCall.ctxDone
       THEN DeleteUserReturn({ErrContext})
       ELSE DeleteUserGoto("deleteUserReferences")
    /\ TablesUnchanged

\* deleteUser lines 41-43 with deleteUserReferences, lines 70-89.
DeleteUserReferences(fails) ==
    /\ deleteUserCall.pc = "deleteUserReferences"
    /\ IF deleteUserCall.ctxDone
       THEN DeleteUserReturn({ErrContext})
       ELSE IF fails
       THEN DeleteUserReturn({ErrStorage})
       ELSE DeleteUserGoto("updateReferredByForAllT1Referrals")
    /\ TablesUnchanged

\* deleteUser lines 44 and 46: one call of updateReferredByForAllT1Referrals
\* (lines 92-147), which checks the context before it asks the store.
UpdateReferredByForAllT1Referrals(answer) ==
    /\ deleteUserCall.pc = "updateReferredByForAllT1Referrals"
    /\ deleteUserCall' =
          [deleteUserCall EXCEPT
             !.pc = "retry",
             !.err = IF deleteUserCall.ctxDone THEN {ErrContext} ELSE answer,
             !.attempts = IF @ < DeleteMaxAttempts THEN @ + 1 ELSE @]
    /\ TablesUnchanged

\* deleteUser lines 44-51: the test of the error of the last call; the
\* loop of line 45 calls again, line 48 returns any other error.
DeleteUserRetry ==
    /\ deleteUserCall.pc = "retry"
    /\ IF retries(deleteUserCall.err)
       THEN DeleteUserGoto("updateReferredByForAllT1Referrals")
       ELSE IF deleteUserCall.err # {}
       THEN DeleteUserReturn(deleteUserCall.err)
       ELSE DeleteUserGoto("getUserByID")
    /\ TablesUnchanged

\* deleteUser lines 52-56 with getUserByID (context check at line 175).
GetUserByID(found) ==
    /\ deleteUserCall.pc = "getUserByID"
    /\ IF deleteUserCall.ctxDone
       THEN DeleteUserReturn({ErrContext})
       ELSE IF ~found
       THEN DeleteUserReturn({ErrNotFound})
       ELSE DeleteUserGoto("delete")
    /\ TablesUnchanged

\* deleteUser lines 57-67: DELETE FROM users; a missing relation makes
\* deleteUser call itself again (line 61).
DeleteFromUsers(answer) ==
    /\ deleteUserCall.pc = "delete"
    /\ IF answer = {}
       THEN DeleteUserReturn({})
       ELSE IF ErrRelationNotFound \in answer
       THEN deleteUserCall' =
               [deleteUserCall EXCEPT !.pc = "deleteUser", !.err = {},
                                      !.depth = IF @ < DeleteMaxDepth THEN @ + 1 ELSE @]
       ELSE DeleteUserReturn(answer)
    /\ TablesUnchanged

\* The steps of the goroutine that runs deleteUser.
DeleteUserStep ==
    \/ DeleteUserEnter
    \/ \E f \in BOOLEAN : DeleteUserReferences(f)
    \/ \E a \in UpdateReferredByAnswers : UpdateReferredByForAllT1Referrals(a)
    \/ DeleteUserRetry
    \/ \E f \in BOOLEAN : GetUserByID(f)
    \/ \E a \in {{}, {ErrRelationNotFound}, {ErrStorage}} : DeleteFromUsers(a)

\* deleteUser is called with a context that the caller may or may not be
\* able to cancel.
InitDelete ==
    /\ now = 0
    /\ cfg = [MaxWrongAttemptsCount |-> SmallMaxWrongAttempts,
              BlockDuration |-> BlockDurationTicks]
    /\ InitTables
    /\ pc = [p \in Procs |-> "idle"]
    /\ args = [p \in Procs |-> NoArgs]
    /\ els = [p \in Procs |-> NoEls]
    /\ ret = [p \in Procs |-> NoRet]
    /\ hist = [p \in Procs |-> NoHist]
    /\ budget = [calls |-> 0, links |-> 0, updates |-> 0, ticks |-> 0]
    /\ \E c \in BOOLEAN :
          deleteUserCall = [NoDeleteUser EXCEPT !.pc = "deleteUser", !.ctxCancellable = c]

NextDelete ==
    \/ CancelContext
    \/ DeleteUserStep

SpecDelete == InitDelete /\ [][NextDelete]_vars

\* The goroutine of deleteUser keeps running, and every call it makes
\* returns; the caller is not bound to cancel and the store is not bound
\* to any answer.
LiveDelete == SpecDelete /\ WF_vars(DeleteUserStep)

----------------------------------------------------------------------------
(* Properties *)

SignInRow == {r \in emailLinkSignIns : ByPk(ID, r)}

\* The call of p executed the UPDATE of finishAuthProcess (the store answered).
Finalized(p) == args[p].op = "SignIn" /\ hist[p].finalize \in {"ok", "lost"}

\* C1: two concurrent finishAuthProcess calls on the same record that carry
\* the same pre-read issuedTokenSeq = n and both reach the store: exactly
\* one succeeds and returns n + 1, the other fails with
\* ErrNoConfirmationRequired, and the record's issuedTokenSeq is n + 1.
C1_ExactlyOneFinalizeWins ==
    \A p \in Procs, q \in Procs :
        (/\ p # q
         /\ Finalized(p) /\ Finalized(q)
         /\ els[p].issuedTokenSeq = els[q].issuedTokenSeq)
        => LET n == els[p].issuedTokenSeq
               Won(x) == /\ hist[x].finalize = "ok"
                         /\ hist[x].finalizeRet = n + 1
                         /\ hist[x].finalizeErr = {}
               Lost(x) == /\ hist[x].finalize = "lost"
                          /\ hist[x].finalizeErr = {ErrNoConfirmationRequired}
           IN /\ (Won(p) /\ Lost(q)) \/ (Won(q) /\ Lost(p))
              /\ \A r \in SignInRow : r.issuedTokenSeq = n + 1

C1_Witness ==
    \E p \in Procs, q \in Procs :
        /\ p # q
        /\ Finalized(p) /\ Finalized(q)
        /\ els[p].issuedTokenSeq = els[q].issuedTokenSeq
        /\ hist[p].finalize = "ok" /\ hist[q].finalize = "lost"

\* C2: a SignIn call that reads a record whose confirmationCode equals its
\* userID (the terminal marker) fails with ErrNoPendingLoginSession whatever
\* code it presents, writes nothing, and reaches neither finalize nor token
\* generation.
C2_TerminalMarkerRejects ==
    \A p \in Procs :
        (/\ args[p].op = "SignIn"
         /\ hist[p].found
         /\ pc[p] # "signIn"
         /\ els[p].confirmationCode = els[p].userID)
        => /\ pc[p] = "done"
           /\ ret[p].err = {ErrNoPendingLoginSession}
           /\ ret[p].tokens = NoTokens
           /\ hist[p].finalize = "none"
           /\ hist[p].rotation = "none"
           /\ ~hist[p].wrote

\* A replay of the very code that produced tokens is rejected.
C2_Witness ==
    \E p \in Procs, q \in Procs :
        /\ p # q
        /\ args[q].op = "SignIn" /\ pc[q] = "done" /\ ret[q].err = {}
        /\ hist[q].rotation = "ok"
        /\ args[p].op = "SignIn" /\ pc[p] = "done" /\ hist[p].found
        /\ els[p].confirmationCode = els[p].userID
        /\ args[p].confirmationCode = args[q].confirmationCode
        /\ ret[p].err = {ErrNoPendingLoginSession}

\* C3: one client alone, on a record that starts with no wrong attempts and
\* no block. The wrong attempt that brings the counter to
\* MaxWrongAttemptsCount (the 10th of 10) sets blocked_until to the time of
\* that attempt plus BlockDuration; the next attempt, made later, returns
\* ErrConfirmationCodeAttemptsExceeded and not ErrConfirmationCodeWrong,
\* whatever code it presents.
C3_BlockAfterMaxWrongAttempts ==
    LET p == "p1"
        max == cfg.MaxWrongAttemptsCount
    IN /\ (/\ pc[p] = "done"
           /\ hist[p].wrote
           /\ els[p].confirmationCodeWrongAttemptsCount = max - 1)
          => \A r \in SignInRow :
                /\ r.confirmationCodeWrongAttemptsCount = max
                /\ r.blockedUntil = hist[p].verifiedAt + cfg.BlockDuration
       /\ (/\ pc[p] = "done"
           /\ hist[p].found
           /\ els[p].confirmationCodeWrongAttemptsCount = max
           /\ hist[p].verifiedAt > els[p].blockedUntil - cfg.BlockDuration)
          => /\ ret[p].err = {ErrConfirmationCodeAttemptsExceeded}
             /\ ret[p].tokens = NoTokens

\* The attempt after the block presents the right code and is still refused.
C3_Witness ==
    /\ cfg.MaxWrongAttemptsCount >= ScenarioMaxWrongAttempts
    /\ pc["p1"] = "done"
    /\ hist["p1"].found
    /\ els["p1"].confirmationCodeWrongAttemptsCount = cfg.MaxWrongAttemptsCount
    /\ els["p1"].blockedUntil # NoTime
    /\ hist["p1"].verifiedAt > els["p1"].blockedUntil - cfg.BlockDuration
    /\ args["p1"].confirmationCode = els["p1"].confirmationCode
    /\ ret["p1"].err = {ErrConfirmationCodeAttemptsExceeded}

\* The verify step of p that presented a wrong code on a copy of the row
\* with MaxWrongAttemptsCount - 1 wrong attempts, and whose write went through.
LastAllowedWrongAttempt(p) ==
    /\ args[p].op = "SignIn"
    /\ hist[p].wrote
    /\ els[p].confirmationCodeWrongAttemptsCount = cfg.MaxWrongAttemptsCount - 1
    /\ args[p].confirmationCode # els[p].confirmationCode

\* C4 as claimed: a wrong code on a record with wrongAttemptsCount =
\* maxAttempts - 1 installs the block and the returned error contains both
\* ErrConfirmationCodeWrong and ErrConfirmationCodeAttemptsExceeded.
C4_Claimed ==
    \A p \in Procs :
        (pc[p] = "done" /\ LastAllowedWrongAttempt(p))
        => /\ \A r \in SignInRow : r.blockedUntil # NoTime
           /\ {ErrConfirmationCodeWrong, ErrConfirmationCodeAttemptsExceeded}
                \subseteq ret[p].err

\* C4 as amended: a wrong code on a record with wrongAttemptsCount =
\* maxAttempts - 1 installs the block (blocked_until = now + BlockDuration,
\* in the write that increments the counter) and the returned error is
\* ErrConfirmationCodeWrong alone, without ErrConfirmationCodeAttemptsExceeded.
C4_BlockInstalledWrongCodeOnly ==
    [][\A p \in Procs :
        (pc[p] = "signIn" /\ pc'[p] = "done" /\ LastAllowedWrongAttempt(p)')
        => /\ \A r \in SignInRow' : r.blockedUntil = now + cfg.BlockDuration
           /\ SignInRow' # {}
           /\ ret'[p].err = {ErrConfirmationCodeWrong}]_vars

C4_Witness ==
    \E p \in Procs :
        /\ pc[p] = "done" /\ LastAllowedWrongAttempt(p)
        /\ ret[p].err = {ErrConfirmationCodeWrong}
        /\ \A r \in SignInRow : r.blockedUntil = hist[p].verifiedAt + cfg.BlockDuration

\* C5: every row of sign_ins_per_ip keeps 0 <= login_attempts <= 10 under
\* any sequence of admits (rejected above 10 by the CHECK constraint) and
\* refunds (GREATEST(login_attempts - 1, 0)).
C5_LoginAttemptsInRange ==
    \A r \in signInsPerIP :
        r.loginAttempts >= 0 /\ r.loginAttempts <= MaxLoginAttemptsPerIP

\* The counter is full, an admit has been rejected, and a refund has run.
C5_Witness ==
    /\ \E r \in signInsPerIP : r.loginAttempts = MaxLoginAttemptsPerIP
    /\ \E p \in Procs : hist[p].rotation \in {"ok", "missed"} /\ args[p].clientIP # ""
                          /\ args[p].loginSessionNumber > 0
    /\ (RateMaxLinks - budget.links) - (RateMaxCalls - budget.calls)
            > MaxLoginAttemptsPerIP

\* C6: one uncontended SignIn that presents the stored confirmation code on
\* a record with issuedTokenSeq = 0, a wrong-attempt counter below the
\* threshold and a resolved userID returns tokens carrying sequence 1 and
\* leaves the record with issuedTokenSeq = 1 and confirmationCode = userID.
C6_FirstSignIn ==
    LET p == "p1"
    IN (/\ pc[p] = "done"
        /\ hist[p].found
        /\ args[p].confirmationCode = els[p].confirmationCode
        /\ els[p].issuedTokenSeq = 0
        /\ els[p].confirmationCodeWrongAttemptsCount < cfg.MaxWrongAttemptsCount
        /\ els[p].userID # NULL)
       => /\ ret[p].err = {}
          /\ ret[p].tokens.seq = 1
          /\ ret[p].tokens.userID = els[p].userID
          /\ SignInRow # {}
          /\ \A r \in SignInRow :
                /\ r.issuedTokenSeq = 1
                /\ r.userID = els[p].userID
                /\ r.confirmationCode = r.userID

C6_Witness ==
    /\ pc["p1"] = "done"
    /\ hist["p1"].found
    /\ args["p1"].confirmationCode = els["p1"].confirmationCode
    /\ els["p1"].issuedTokenSeq = 0
    /\ hist["p1"].rotation = "ok"
    /\ ret["p1"].tokens.seq = 1
    /\ \A r \in SignInRow : r.confirmationCode = "u1" /\ r.issuedTokenSeq = 1

\* C7: no step of the engine (link request, SignIn read, verify, email
\* modification, finalize, rotation, Status) lowers a record's
\* issuedTokenSeq, and no step removes the record.
C7_IssuedTokenSeqNeverDecreases ==
    [][\A r \in emailLinkSignIns :
        \E n \in emailLinkSignIns' :
            /\ n.email = r.email
            /\ n.deviceUniqueID = r.deviceUniqueID
            /\ n.issuedTokenSeq >= r.issuedTokenSeq]_vars

\* Finalize has advanced the sequence and Status has then served the record.
C7_Witness ==
    /\ \E r \in SignInRow : r.issuedTokenSeq >= 1 /\ r.confirmationCode = r.userID
    /\ \E p \in Procs :
          /\ args[p].op = "Status" /\ pc[p] = "done"
          /\ ret[p].err = {} /\ hist[p].rotation = "ok"

\* C8: a finishAuthProcess call whose pre-read issuedTokenSeq no longer
\* matches the stored one (it fails with the race-lost error) leaves the
\* sign-in record and the account_metadata row of the user unchanged.
C8_RaceLostChangesNothing ==
    [][\A p \in Procs :
        (pc[p] = "finishAuthProcess" /\ hist'[p].finalize = "lost")
        => /\ emailLinkSignIns' = emailLinkSignIns
           /\ accountMetadata' = accountMetadata]_vars

\* The call of p changed the email for a non-empty oldEmail and then failed
\* at finishAuthProcess.
FinalizeFailedAfterEmailChange(p) ==
    /\ args[p].op = "SignIn"
    /\ args[p].oldEmail # ""
    /\ hist[p].modified
    /\ hist[p].finalize \in {"lost", "failed"}

\* C9: in a SignIn whose flow token carries a non-empty oldEmail, when the
\* email modification succeeded and finishAuthProcess then fails, both
\* reversions (account level and identity provider) are attempted, each one
\* that succeeds puts oldEmail back, and the error SignIn returns contains
\* the finalize failure together with every reversion failure.
C9_EmailChangeCompensated ==
    [][\A p \in Procs :
        /\ (/\ pc[p] = "resetEmailModification"
            /\ pc'[p] # pc[p]
            /\ hist'[p].resetEmail = "ok")
           => userEmail'[els[p].userID] = args[p].oldEmail
        /\ (/\ pc[p] = "resetFirebaseEmailModification"
            /\ pc'[p] # pc[p]
            /\ hist'[p].resetFirebase = "ok")
           => firebaseEmail'[els[p].userID] = args[p].oldEmail
        /\ (pc[p] # "done" /\ pc'[p] = "done" /\ FinalizeFailedAfterEmailChange(p)')
           => /\ hist'[p].resetEmail # "none"
              /\ hist'[p].resetFirebase # "none"
              /\ hist'[p].finalizeErr # {}
              /\ hist'[p].finalizeErr \subseteq ret'[p].err
              /\ (hist'[p].resetEmail = "failed")
                    <=> (ErrResetEmailModification \in ret'[p].err)
              /\ (hist'[p].resetFirebase = "failed")
                    <=> (ErrResetFirebaseEmailModification \in ret'[p].err)
              /\ ret'[p].tokens = NoTokens]_vars

\* Finalize lost its race, one reversion failed and the other restored oldEmail.
C9_Witness ==
    \E p \in Procs :
        /\ pc[p] = "done"
        /\ FinalizeFailedAfterEmailChange(p)
        /\ hist[p].resetEmail = "failed"
        /\ hist[p].resetFirebase = "ok"
        /\ firebaseEmail[els[p].userID] = args[p].oldEmail
        /\ ret[p].err = {ErrNoConfirmationRequired, ErrResetEmailModification}

\* C10: the error SignIn returns when finishAuthProcess updated zero rows
\* (race lost) is of a kind that differs from the kind it returns when the
\* initial lookup finds no record.
C10_RaceLostDistinctFromNotFound ==
    \A p \in Procs :
        (args[p].op = "SignIn" /\ pc[p] = "done" /\ hist[p].finalize = "lost")
        => ret[p].err # lookupNotFound

\* C11: when the rotation write (resetLoginSession) fails after
\* finishAuthProcess succeeded within a SignIn call, the tokens that call
\* generated are still returned to the caller, and the finalize effects
\* (advanced issuedTokenSeq, userID, tokenIssuedAt) stay committed.
C11_TokensSurviveRotationFailure ==
    \A p \in Procs :
        (/\ args[p].op = "SignIn" /\ pc[p] = "done"
         /\ hist[p].finalize = "ok" /\ hist[p].rotation = "failed")
        => /\ ret[p].tokens # NoTokens
           /\ ret[p].tokens.seq = hist[p].finalizeRet
           /\ \A r \in SignInRow :
                /\ r.issuedTokenSeq >= hist[p].finalizeRet
                /\ r.userID = els[p].userID
                /\ r.tokenIssuedAt # NoTime

\* The call of q read the record after a finalize had committed on it and
\* before any rotation rewrote its code, and presents the stored code.
ReplayBeforeRotation(q) ==
    /\ args[q].op = "SignIn"
    /\ hist[q].found
    /\ pc[q] # "signIn"
    /\ els[q].issuedTokenSeq >= 1
    /\ els[q].confirmationCode # els[q].userID
    /\ els[q].confirmationCode = args[q].confirmationCode
    /\ els[q].confirmationCodeWrongAttemptsCount < cfg.MaxWrongAttemptsCount

\* C12: between the commit of one SignIn's finalize and the commit of its
\* rotation write, a second SignIn that presents the same confirmation code
\* passes verification, and its finalize, when it reaches the store with
\* the sequence still as read, advances issuedTokenSeq once more: two
\* SignIn flows for one confirmation code each advance issuedTokenSeq.
C12_ReplayBeforeRotationFinalizes ==
    \A q \in Procs :
        ReplayBeforeRotation(q)
        => /\ hist[q].verifyErr = {}
           /\ ~hist[q].wrote
           /\ hist[q].finalize = "ok"
                => /\ hist[q].finalizeRet = els[q].issuedTokenSeq + 1
                   /\ \A r \in SignInRow : r.issuedTokenSeq >= els[q].issuedTokenSeq + 1

\* Two flows finalized on the same code; the first one's rotation had not
\* committed when the second one read the record.
C12_Witness ==
    \E p \in Procs, q \in Procs :
        /\ p # q
        /\ args[p].op = "SignIn" /\ hist[p].finalize = "ok"
        /\ ReplayBeforeRotation(q) /\ hist[q].finalize = "ok"
        /\ args[p].confirmationCode = args[q].confirmationCode
        /\ els[q].issuedTokenSeq = els[p].issuedTokenSeq + 1
        /\ \A r \in SignInRow : r.issuedTokenSeq = els[p].issuedTokenSeq + 2

\* C13: a SignIn or Status call whose session token fails parsing returns
\* an error (the invalid-token one, no tokens) in that one step, without
\* any storage read and without any storage write.
C13_InvalidTokenNeverReachesStorage ==
    \A p \in Procs :
        (args[p].op \in {"SignIn", "Status"} /\ ~args[p].tokenValid)
        => /\ pc[p] = "done"
           /\ ret[p].err = {ErrInvalidToken}
           /\ ret[p].tokens = NoTokens
           /\ els[p] = NoEls
           /\ ~hist[p].read
           /\ ~hist[p].wrote
           /\ hist[p].finalize = "none"
           /\ hist[p].rotation = "none"

\* Both entry points have refused an invalid token while a record existed.
C13_Witness ==
    /\ SignInRow # {}
    /\ \E p \in Procs, q \in Procs :
          /\ args[p].op = "SignIn" /\ ~args[p].tokenValid /\ pc[p] = "done"
          /\ args[q].op = "Status" /\ ~args[q].tokenValid /\ pc[q] = "done"
          /\ args[p].now >= 0 /\ args[q].now >= 0

\* C14: a Status call that finds a record whose userID is unset or whose
\* otp differs from its userID fails with ErrStatusNotVerified, returns no
\* tokens and performs no write.
C14_StatusNotVerified ==
    \A p \in Procs :
        (/\ args[p].op = "Status"
         /\ hist[p].found
         /\ (els[p].userID = NULL \/ els[p].otp # els[p].userID))
        => /\ pc[p] = "done"
           /\ ret[p].err = {ErrStatusNotVerified}
           /\ ret[p].tokens = NoTokens
           /\ hist[p].rotation = "none"
           /\ ~hist[p].wrote

\* A poll found the record after finalize had set its userID and before the
\* otp was confirmed.
C14_Witness ==
    \E q \in Procs :
        /\ args[q].op = "Status" /\ pc[q] = "done" /\ hist[q].found
        /\ els[q].userID # NULL
        /\ els[q].otp # els[q].userID
        /\ ret[q].err = {ErrStatusNotVerified}
        /\ ret[q].tokens = NoTokens

\* The step starts a Status call of q (q's record of its call changes while
\* q is between calls).
StatusBegins(q) ==
    /\ pc[q] \in {"idle", "done"}
    /\ args'[q].op = "Status"
    /\ <<pc[q], args[q], els[q], ret[q], hist[q]>>
         # <<pc'[q], args'[q], els'[q], ret'[q], hist'[q]>>

\* C15: a Status call that finds a verified record whose confirmationCode
\* equals its userID fails with ErrNoPendingLoginSession and returns no
\* tokens; and once the record carries that marker (a Status call returned
\* tokens and rewrote the code), a Status call with the session token of
\* the consumed code fails with ErrNoPendingLoginSession, returns no tokens
\* and writes nothing.
C15_StatusTerminalMarkerRejects ==
    [][\A q \in Procs :
        /\ (/\ StatusBegins(q)
            /\ hist'[q].found
            /\ ~statusNotVerified(els'[q])
            /\ els'[q].confirmationCode = els'[q].userID)
           => /\ pc'[q] = "done"
              /\ ret'[q].err = {ErrNoPendingLoginSession}
              /\ ret'[q].tokens = NoTokens
        /\ (/\ StatusBegins(q)
            /\ args'[q].tokenValid
            /\ \E r \in SignInRow :
                  /\ r.userID # NULL
                  /\ r.confirmationCode = r.userID
                  /\ (r.otp = r.userID \/ args'[q].confirmationCode # r.userID))
           => /\ pc'[q] = "done"
              /\ ret'[q].err = {ErrNoPendingLoginSession}
              /\ ret'[q].tokens = NoTokens
              /\ emailLinkSignIns' = emailLinkSignIns]_vars

\* One Status call returned tokens and rewrote the code; a later one with the
\* same session token (made when the record existed, and finding nothing
\* under the consumed code) was refused.
C15_Witness ==
    \E p \in Procs, q \in Procs :
        /\ p # q
        /\ args[p].op = "Status" /\ pc[p] = "done"
        /\ ret[p].tokens # NoTokens /\ hist[p].rotation = "ok"
        /\ args[q].op = "Status" /\ pc[q] = "done"
        /\ args[q].confirmationCode = args[p].confirmationCode
        /\ args[q].now > args[p].now
        /\ \A r \in SignInRow : r.confirmationCode = r.userID /\ r.createdAt < args[q].now
        /\ hist[q].read /\ ~hist[q].found
        /\ ret[q].err = {ErrNoPendingLoginSession}
        /\ ret[q].tokens = NoTokens

\* C16: a SignIn whose caller's context is already cancelled issues no
\* storage call (no read of the record, no wrong-attempt write, no finalize,
\* no rotation) and returns a failure.
C16_CancelledIssuesNoStorageCall ==
    \A p \in Procs :
        (args[p].op = "SignIn" /\ args[p].tokenValid /\ args[p].ctxDone)
        => /\ pc[p] = "done"
           /\ ~hist[p].read
           /\ ~hist[p].wrote
           /\ hist[p].finalize = "none"
           /\ hist[p].rotation = "none"
           /\ ret[p].err # {}
           /\ ret[p].tokens = NoTokens

\* C17: in every reachable state there is at most one sign-in record per
\* (email, deviceUniqueID); a link request for a key that has a record
\* renews that record and never adds a second row.
C17_OneRecordPerKey ==
    \A r1 \in emailLinkSignIns, r2 \in emailLinkSignIns :
        (r1.email = r2.email /\ r1.deviceUniqueID = r2.deviceUniqueID) => r1 = r2

\* Two link requests for the key were admitted, the second one at a later
\* time than the first and with another code: the one row is the renewed one.
C17_Witness ==
    /\ \E r \in signInsPerIP : r.loginAttempts >= 2
    /\ Cardinality(SignInRow) = 1
    /\ \E r \in SignInRow : r.createdAt < now /\ r.confirmationCode = "c2"
    /\ \E p \in Procs : args[p].op = "SignIn" /\ hist[p].found
                          /\ els[p].confirmationCode = "c1"

\* C18: a successful finishAuthProcess that read issuedTokenSeq = n leaves
\* the record with issuedTokenSeq = n + 1 and previouslyIssuedTokenSeq = n,
\* the value before the write.
C18_PreviousSeqIsValueBefore ==
    [][\A p \in Procs :
        (pc[p] = "finishAuthProcess" /\ hist'[p].finalize = "ok")
        => /\ SignInRow' # {}
           /\ \A r \in SignInRow' :
                /\ r.issuedTokenSeq = els[p].issuedTokenSeq + 1
                /\ r.previouslyIssuedTokenSeq = els[p].issuedTokenSeq]_vars

\* C19: after a successful finishAuthProcess the account_metadata row of the
\* resolved user carries the identity (ice id) claim equal to the resolved
\* userID, whatever metadata was stored before, a stored identity claim
\* that differs included: the freshly computed value wins.
C19_IdentityClaimIsResolvedUserID ==
    [][\A p \in Procs :
        (pc[p] = "finishAuthProcess" /\ hist'[p].finalize = "ok")
        => /\ \E m \in accountMetadata' : m.userID = els[p].userID
           /\ \A m \in accountMetadata' :
                m.userID = els[p].userID => m.metadata.iceID = els[p].userID]_vars

\* C20: under any interleaving of concurrent verify calls on a record that
\* starts with no wrong attempts and no block, a wrong-attempt counter at or
\* above MaxWrongAttemptsCount implies that blockedUntil is set: the write
\* that brings the counter to the threshold also installs the block.
C20_ThresholdImpliesBlock ==
    \A r \in emailLinkSignIns :
        r.confirmationCodeWrongAttemptsCount >= cfg.MaxWrongAttemptsCount
        => r.blockedUntil # NoTime

\* C21: in an email-change flow (non-empty oldEmail) run by concurrent
\* SignIn calls on one record, where no storage call fails: if some call
\* returns tokens then, once all calls have finished, the account's email
\* is the new email; the compensation of a call that lost the finalize race
\* does not revert the email change of the call that won.
C21_LoserKeepsWinnersEmail ==
    (/\ \A p \in Procs : pc[p] \in {"idle", "done"}
     /\ \A p \in Procs :
           /\ hist[p].finalize # "failed"
           /\ hist[p].resetEmail # "failed"
           /\ hist[p].resetFirebase # "failed"
           /\ args[p].op = "SignIn" => (args[p].oldEmail # "" /\ hist[p].modified)
     /\ \E p \in Procs :
           /\ args[p].op = "SignIn" /\ pc[p] = "done"
           /\ ret[p].err = {} /\ ret[p].tokens # NoTokens)
    => \A u \in UserIDs : userEmail[u] = ID.email /\ firebaseEmail[u] = ID.email

\* C22: whenever handleEmailModification ran in a SignIn call, triggered by
\* a non-empty oldEmail or only by the phone-to-email migration marker of
\* the record, and finishAuthProcess then fails, the reversion of the email
\* change has run (at the account and at the identity provider) by the time
\* SignIn returns.
C22_EveryEmailChangeCompensated ==
    \A p \in Procs :
        (/\ args[p].op = "SignIn" /\ pc[p] = "done"
         /\ hist[p].modified
         /\ hist[p].finalize \in {"lost", "failed"})
        => /\ hist[p].resetEmail # "none"
           /\ hist[p].resetFirebase # "none"

\* The copy e of the record is over its budget of wrong attempts and carries
\* a block that lies after its creation and before t + BlockDuration.
BlockInPlace(e, t) ==
    /\ e.confirmationCodeWrongAttemptsCount >= cfg.MaxWrongAttemptsCount
    /\ e.blockedUntil # NoTime
    /\ e.createdAt < e.blockedUntil
    /\ e.blockedUntil < t + cfg.BlockDuration

\* C23: verify on a record with wrongAttemptsCount >= maxAttempts and a
\* block window with createdAt < blockedUntil < now + blockDuration returns
\* ErrConfirmationCodeAttemptsExceeded alone (no ErrConfirmationCodeWrong)
\* and performs no write, whatever code is presented.
C23_BlockedRejectedWithoutWrite ==
    [][\A p \in Procs :
        (/\ pc[p] = "signIn" /\ pc'[p] # "signIn"
         /\ ~tokensAlreadyProvided(els[p])
         /\ BlockInPlace(els[p], now))
        => /\ pc'[p] = "done"
           /\ ret'[p].err = {ErrConfirmationCodeAttemptsExceeded}
           /\ ret'[p].tokens = NoTokens
           /\ ~hist'[p].wrote
           /\ emailLinkSignIns' = emailLinkSignIns]_vars

\* Inside the block a wrong code was refused without a write, with the
\* counter above the threshold.
C23_Witness ==
    \E p \in Procs :
        /\ args[p].op = "SignIn" /\ pc[p] = "done" /\ hist[p].found
        /\ BlockInPlace(els[p], hist[p].verifiedAt)
        /\ els[p].confirmationCodeWrongAttemptsCount > cfg.MaxWrongAttemptsCount
        /\ args[p].confirmationCode # els[p].confirmationCode
        /\ ret[p].err = {ErrConfirmationCodeAttemptsExceeded}
        /\ \A r \in SignInRow :
              r.confirmationCodeWrongAttemptsCount = els[p].confirmationCodeWrongAttemptsCount

\* C24: verify on a record with wrongAttemptsCount >= maxAttempts whose
\* blockedUntil is unset or lies outside (createdAt, now + blockDuration)
\* increments the counter, sets blockedUntil = now + blockDuration and
\* returns an error containing both ErrConfirmationCodeAttemptsExceeded and
\* ErrConfirmationCodeWrong, even when the presented code is the stored one.
C24_FreshBlockInstalled ==
    [][\A p \in Procs :
        (/\ pc[p] = "signIn" /\ pc'[p] # "signIn"
         /\ ~tokensAlreadyProvided(els[p])
         /\ els[p].confirmationCodeWrongAttemptsCount >= cfg.MaxWrongAttemptsCount
         /\ ~BlockInPlace(els[p], now))
        => /\ {ErrConfirmationCodeAttemptsExceeded, ErrConfirmationCodeWrong}
                \subseteq ret'[p].err
           /\ \A r \in SignInRow : \E r2 \in emailLinkSignIns' :
                /\ ByPk(ID, r2)
                /\ r2.confirmationCodeWrongAttemptsCount =
                       r.confirmationCodeWrongAttemptsCount + 1
                /\ r2.blockedUntil = now + cfg.BlockDuration]_vars

\* The half of C24 that the code keeps: a block that is set but lies
\* outside the window is replaced by a fresh one, with both errors.
C24_StaleBlockReplaced ==
    [][\A p \in Procs :
        (/\ pc[p] = "signIn" /\ pc'[p] # "signIn"
         /\ ~tokensAlreadyProvided(els[p])
         /\ els[p].confirmationCodeWrongAttemptsCount >= cfg.MaxWrongAttemptsCount
         /\ els[p].blockedUntil # NoTime
         /\ ~BlockInPlace(els[p], now))
        => /\ ret'[p].err = {ErrConfirmationCodeAttemptsExceeded, ErrConfirmationCodeWrong}
           /\ \A r \in SignInRow : \E r2 \in emailLinkSignIns' :
                /\ ByPk(ID, r2)
                /\ r2.confirmationCodeWrongAttemptsCount =
                       r.confirmationCodeWrongAttemptsCount + 1
                /\ r2.blockedUntil = now + cfg.BlockDuration]_vars

\* A call has read the record over its budget with no block on it.
C24_UnsetBlockRead ==
    \E p \in Procs :
        /\ pc[p] = "done" /\ args[p].op = "SignIn" /\ hist[p].found
        /\ els[p].confirmationCodeWrongAttemptsCount >= cfg.MaxWrongAttemptsCount
        /\ els[p].blockedUntil = NoTime
        /\ args[p].confirmationCode = els[p].confirmationCode

\* C25: verify called with the stored code on a record with
\* wrongAttemptsCount < maxAttempts succeeds and performs no write:
\* wrongAttemptsCount, blockedUntil and every other field of the record are
\* unchanged (the call goes on to the email change or to finalize).
C25_CorrectCodePassesWithoutWrite ==
    [][\A p \in Procs :
        (/\ pc[p] = "signIn" /\ pc'[p] # "signIn"
         /\ ~tokensAlreadyProvided(els[p])
         /\ args[p].confirmationCode = els[p].confirmationCode
         /\ els[p].confirmationCodeWrongAttemptsCount < cfg.MaxWrongAttemptsCount)
        => /\ pc'[p] \in {"handleEmailModification", "finishAuthProcess"}
           /\ hist'[p].verifyErr = {}
           /\ ~hist'[p].wrote
           /\ ret'[p].err = {}
           /\ emailLinkSignIns' = emailLinkSignIns]_vars

\* A call with the stored code has passed verification on a record that
\* already carries a wrong attempt below the threshold.
C25_Witness ==
    \E p \in Procs :
        /\ args[p].op = "SignIn" /\ pc[p] = "finishAuthProcess"
        /\ args[p].confirmationCode = els[p].confirmationCode
        /\ els[p].confirmationCodeWrongAttemptsCount > 0
        /\ els[p].confirmationCodeWrongAttemptsCount < cfg.MaxWrongAttemptsCount
        /\ hist[p].verifyErr = {} /\ ~hist[p].wrote
        /\ \A r \in SignInRow : r.blockedUntil = els[p].blockedUntil

\* C26: verify called with a code different from the stored one on a record
\* read with wrongAttemptsCount = k < maxAttempts returns
\* ErrConfirmationCodeWrong and issues one write that increases the stored
\* counter by exactly 1; that write also sets blockedUntil = now +
\* blockDuration if and only if k + 1 >= maxAttempts (a write that the store
\* refuses changes nothing and adds the store's error).
C26_WrongCodeIncrementsOnce ==
    [][\A p \in Procs :
        (/\ pc[p] = "signIn" /\ pc'[p] # "signIn"
         /\ ~tokensAlreadyProvided(els[p])
         /\ args[p].confirmationCode # els[p].confirmationCode
         /\ els[p].confirmationCodeWrongAttemptsCount < cfg.MaxWrongAttemptsCount)
        => /\ pc'[p] = "done"
           /\ ErrConfirmationCodeWrong \in ret'[p].err
           /\ ErrConfirmationCodeAttemptsExceeded \notin ret'[p].err
           /\ ret'[p].tokens = NoTokens
           /\ IF hist'[p].wrote
              THEN /\ ret'[p].err = {ErrConfirmationCodeWrong}
                   /\ emailLinkSignIns' =
                        {IF ByPk(ID, r)
                         THEN [r EXCEPT
                                 !.confirmationCodeWrongAttemptsCount = @ + 1,
                                 !.blockedUntil =
                                    IF els[p].confirmationCodeWrongAttemptsCount + 1
                                          >= cfg.MaxWrongAttemptsCount
                                    THEN now + cfg.BlockDuration ELSE @]
                         ELSE r : r \in emailLinkSignIns}
              ELSE /\ ret'[p].err = {ErrConfirmationCodeWrong, ErrStorage}
                   /\ emailLinkSignIns' = emailLinkSignIns]_vars

\* A wrong code read at k = max - 1 was written: the block is installed.
C26_Witness ==
    \E p \in Procs :
        /\ args[p].op = "SignIn" /\ pc[p] = "done" /\ hist[p].wrote
        /\ args[p].confirmationCode # els[p].confirmationCode
        /\ els[p].confirmationCodeWrongAttemptsCount + 1 = cfg.MaxWrongAttemptsCount
        /\ ret[p].err = {ErrConfirmationCodeWrong}
        /\ \E r \in SignInRow :
              /\ r.confirmationCodeWrongAttemptsCount = cfg.MaxWrongAttemptsCount
              /\ r.blockedUntil = hist[p].verifiedAt + cfg.BlockDuration

\* A wrong code read at k < max - 1 was written: no block is installed.
C26_WitnessNoBlock ==
    \E p \in Procs :
        /\ args[p].op = "SignIn" /\ pc[p] = "done" /\ hist[p].wrote
        /\ args[p].confirmationCode # els[p].confirmationCode
        /\ els[p].confirmationCodeWrongAttemptsCount + 1 < cfg.MaxWrongAttemptsCount
        /\ \E r \in SignInRow :
              /\ r.confirmationCodeWrongAttemptsCount
                    = els[p].confirmationCodeWrongAttemptsCount + 1
              /\ r.blockedUntil = NoTime

\* C27: verify never succeeds on a record read with wrongAttemptsCount >=
\* maxAttempts, at any current time: the call ends there with an error and
\* without tokens, also after blockedUntil has passed and with the stored
\* code; a call that passes verification has read a counter below
\* maxAttempts.
C27_ExhaustedRecordNeverVerifies ==
    [][\A p \in Procs :
        (/\ pc[p] = "signIn" /\ pc'[p] # "signIn"
         /\ ~tokensAlreadyProvided(els[p]))
        => /\ (els[p].confirmationCodeWrongAttemptsCount >= cfg.MaxWrongAttemptsCount
               => /\ pc'[p] = "done"
                  /\ ret'[p].err # {}
                  /\ hist'[p].verifyErr # {}
                  /\ ret'[p].tokens = NoTokens)
           /\ (hist'[p].verifyErr = {}
               => els[p].confirmationCodeWrongAttemptsCount < cfg.MaxWrongAttemptsCount)]_vars

\* The stored code was refused on an exhausted record after its block had
\* run out.
C27_Witness ==
    \E p \in Procs :
        /\ args[p].op = "SignIn" /\ pc[p] = "done" /\ hist[p].found
        /\ els[p].confirmationCodeWrongAttemptsCount >= cfg.MaxWrongAttemptsCount
        /\ els[p].blockedUntil # NoTime
        /\ hist[p].verifiedAt > els[p].blockedUntil
        /\ args[p].confirmationCode = els[p].confirmationCode
        /\ ret[p].err # {} /\ ret[p].tokens = NoTokens

\* C28: no step of verify, finalize, rotation (reset) or Status lowers a
\* record's confirmationCodeWrongAttemptsCount: every step of a SignIn or
\* Status call leaves each record with a counter at least as high, and the
\* finalize and rotation steps leave it at the value it had, so that a
\* successful SignIn does not reset it.
C28_WrongAttemptsNeverLowered ==
    [][budget'.links = budget.links
       => \A r \in emailLinkSignIns : \E r2 \in emailLinkSignIns' :
            /\ r2.email = r.email /\ r2.deviceUniqueID = r.deviceUniqueID
            /\ r2.confirmationCodeWrongAttemptsCount
                  >= r.confirmationCodeWrongAttemptsCount
            /\ (\E p \in Procs : pc[p] \in {"finishAuthProcess", "resetLoginSession",
                                            "statusResetLoginSession"}
                                 /\ pc'[p] # pc[p])
               => r2.confirmationCodeWrongAttemptsCount
                     = r.confirmationCodeWrongAttemptsCount]_vars

\* A SignIn has returned tokens on a record that keeps its wrong attempt.
C28_Witness ==
    \E p \in Procs :
        /\ args[p].op = "SignIn" /\ pc[p] = "done"
        /\ ret[p].err = {} /\ ret[p].tokens # NoTokens
        /\ hist[p].rotation = "ok"
        /\ els[p].confirmationCodeWrongAttemptsCount > 0
        /\ \A r \in SignInRow :
              r.confirmationCodeWrongAttemptsCount
                 = els[p].confirmationCodeWrongAttemptsCount

\* C29: after a successful finalize with timestamp now, the record has
\* tokenIssuedAt = now, userID = the resolved userID, no
\* phoneNumberToEmailMigrationUserID, and emailConfirmedAt = now if
\* emailConfirmed is true, otherwise emailConfirmedAt unset (null) whatever
\* it held before.
C29_FinalizeWritesRecord ==
    [][\A p \in Procs :
        (pc[p] = "finishAuthProcess" /\ hist'[p].finalize = "ok")
        => /\ \E r \in emailLinkSignIns' : ByPk(ID, r)
           /\ \A r \in emailLinkSignIns' :
                ByPk(ID, r)
                => /\ r.tokenIssuedAt = args[p].now
                   /\ r.userID = els[p].userID
                   /\ r.phoneNumberToEmailMigrationUserID = NULL
                   /\ r.emailConfirmedAt =
                        IF ret[p].emailConfirmed THEN args[p].now ELSE NoTime]_vars

\* A finalize with a confirmed email, then a later one without: the record's
\* emailConfirmedAt is unset again.
C29_Witness ==
    \E p, q \in Procs :
        /\ p # q
        /\ hist[q].finalize = "ok" /\ ret[q].emailConfirmed
        /\ hist[p].finalize = "ok" /\ ~ret[p].emailConfirmed
        /\ args[q].now < args[p].now
        /\ \E r \in SignInRow :
              /\ r.issuedTokenSeq = els[q].issuedTokenSeq + 2
              /\ r.tokenIssuedAt = args[p].now
              /\ r.emailConfirmedAt = NoTime

\* The registered-with-provider claim C30 expects in the metadata written
\* for userID by a call that read md.
ExpectedRegisteredWith(md, userID) ==
    IF md.registeredWithProvider # NULL THEN md.registeredWithProvider
    ELSE IF md.firebaseID # NULL /\ md.firebaseID \notin NativeIDs /\ userID \notin NativeIDs
         THEN "firebase"
         ELSE NULL

\* C30: finalize adds the registered-with-provider claim (value firebase)
\* to the written metadata exactly when the stored metadata has no
\* registered-with-provider claim, has a firebase id claim, and neither
\* that claim nor the resolved userID starts with the native-identity
\* prefix; a registered-with-provider claim already stored is never
\* replaced. The stored metadata is the one the call read with the record
\* and handed to finishAuthProcess.
C30_RegisteredWithBackfill ==
    [][\A p \in Procs :
        (pc[p] = "finishAuthProcess" /\ hist'[p].finalize \in {"ok", "lost"})
        => /\ \E m \in accountMetadata' : m.userID = els[p].userID
           /\ \A m \in accountMetadata' :
                m.userID = els[p].userID
                => m.metadata.registeredWithProvider
                      = ExpectedRegisteredWith(els[p].metadata, els[p].userID)
           /\ els[p].metadata.registeredWithProvider # NULL
              => \A m \in accountMetadata' :
                    m.userID = els[p].userID
                    => m.metadata.registeredWithProvider
                          = els[p].metadata.registeredWithProvider]_vars

\* The claim was back-filled: the account had a foreign firebase id and no
\* registered-with-provider claim, and now carries firebase.
C30_Witness ==
    \E p \in Procs :
        /\ args[p].op = "SignIn" /\ hist[p].finalize = "ok"
        /\ els[p].metadata.registeredWithProvider = NULL
        /\ els[p].metadata.firebaseID = "fb1"
        /\ els[p].userID \notin NativeIDs
        /\ \E m \in accountMetadata :
              /\ m.userID = els[p].userID
              /\ m.metadata.registeredWithProvider = "firebase"

\* A stored registered-with-provider claim went through a finalize as it was.
C30_WitnessKept ==
    \E p \in Procs :
        /\ args[p].op = "SignIn" /\ hist[p].finalize = "ok"
        /\ els[p].metadata.registeredWithProvider = "google"
        /\ els[p].metadata.firebaseID = "fb1"
        /\ \E m \in accountMetadata :
              /\ m.userID = els[p].userID
              /\ m.metadata.registeredWithProvider = "google"

\* The native user's account with a foreign firebase id gets no claim.
C30_WitnessNative ==
    \E p \in Procs :
        /\ args[p].op = "SignIn" /\ hist[p].finalize = "ok"
        /\ els[p].userID \in NativeIDs
        /\ els[p].metadata.firebaseID = "fb1"
        /\ \E m \in accountMetadata :
              /\ m.userID = els[p].userID
              /\ m.metadata.registeredWithProvider = NULL

\* C31: after a SignIn that returns tokens and whose flow token carries a
\* non-empty clientIP and loginSessionNumber > 0, the attempt counter of
\* that (ip, loginSessionNumber) is max(previous - 1, 0) and no other row
\* changes; when clientIP is empty or loginSessionNumber <= 0 no row of
\* sign_ins_per_ip is modified. No other step of a SignIn call writes the
\* table.
C31_RefundOnSuccess ==
    [][\A p \in Procs :
        (pc'[p] # pc[p] /\ args'[p].op = "SignIn")
        => IF /\ pc[p] = "resetLoginSession"
              /\ hist'[p].rotation \in {"ok", "missed"}
              /\ args[p].clientIP # "" /\ args[p].loginSessionNumber > 0
           THEN /\ ret'[p].tokens # NoTokens
                /\ signInsPerIP' =
                     {IF r.ip = args[p].clientIP
                         /\ r.loginSessionNumber = args[p].loginSessionNumber
                      THEN [r EXCEPT !.loginAttempts =
                                IF r.loginAttempts >= 1 THEN r.loginAttempts - 1 ELSE 0]
                      ELSE r : r \in signInsPerIP}
           ELSE signInsPerIP' = signInsPerIP]_vars

\* A sign-in with (ip1, 1) returned tokens and took one attempt off a
\* counter that stood at 2 or more.
C31_Witness ==
    \E p \in Procs :
        /\ args[p].op = "SignIn" /\ pc[p] = "done"
        /\ ret[p].err = {} /\ ret[p].tokens # NoTokens
        /\ args[p].clientIP = "ip1" /\ args[p].loginSessionNumber = 1
        /\ hist[p].rotation = "ok"
        /\ budget.calls = RateMaxCalls - 1
        /\ \E r \in signInsPerIP :
              /\ r.ip = "ip1" /\ r.loginSessionNumber = 1
              /\ r.loginAttempts >= 1
              /\ r.loginAttempts = (RateMaxLinks - budget.links) - 1

\* A sign-in without a login session returned tokens; the counter is as
\* the admits left it.
C31_WitnessNoRefund ==
    \E p \in Procs :
        /\ args[p].op = "SignIn" /\ pc[p] = "done"
        /\ ret[p].err = {} /\ ret[p].tokens # NoTokens
        /\ args[p].clientIP = "ip1" /\ args[p].loginSessionNumber = 0
        /\ budget.calls = RateMaxCalls - 1
        /\ \E r \in signInsPerIP :
              r.loginAttempts = RateMaxLinks - budget.links /\ r.loginAttempts >= 1

\* C32: the decrement of the IP attempt counter issued by the rotation
\* statement is applied on every execution of that statement with a
\* non-empty IP and loginSessionNumber > 0, whether or not the rewrite of
\* the confirmation code in the same statement matches a row: a rotation
\* that lost its race still refunds one attempt.
C32_RefundWithoutRewrite ==
    [][\A p \in Procs :
        (/\ pc[p] = "resetLoginSession"
         /\ hist'[p].rotation = "missed"
         /\ args[p].clientIP # "" /\ args[p].loginSessionNumber > 0)
        => /\ emailLinkSignIns' = emailLinkSignIns
           /\ \A r \in signInsPerIP :
                (r.ip = args[p].clientIP
                 /\ r.loginSessionNumber = args[p].loginSessionNumber
                 /\ r.loginAttempts > 0)
                => \E r2 \in signInsPerIP' :
                      /\ r2.ip = r.ip /\ r2.loginSessionNumber = r.loginSessionNumber
                      /\ r2.loginAttempts = r.loginAttempts - 1]_vars

\* Two sign-ins with (ip1, 1) on one record: one rotation rewrote the code,
\* the other matched no row, and two attempts were refunded.
C32_Witness ==
    \E p, q \in Procs :
        /\ p # q
        /\ pc[p] = "done" /\ pc[q] = "done"
        /\ hist[p].rotation = "missed" /\ hist[q].rotation = "ok"
        /\ args[p].clientIP = "ip1" /\ args[p].loginSessionNumber = 1
        /\ args[q].clientIP = "ip1" /\ args[q].loginSessionNumber = 1
        /\ \E r \in signInsPerIP :
              /\ r.ip = "ip1" /\ r.loginSessionNumber = 1
              /\ r.loginAttempts >= 1
              /\ r.loginAttempts = (RateMaxLinks - budget.links) - 2

\* C33: if the write that increments the wrong-attempt counter fails,
\* verify still returns an error that contains ErrConfirmationCodeWrong, the
\* storage failure aggregated next to it, and SignIn issues no tokens (the
\* call ends there, the record unchanged).
C33_FailedIncrementKeepsWrongCode ==
    [][\A p \in Procs :
        (/\ pc[p] = "signIn" /\ pc'[p] # "signIn"
         /\ ~tokensAlreadyProvided(els[p])
         /\ verifySignIn(els[p], args[p].confirmationCode, now, cfg).write
         /\ ~hist'[p].wrote)
        => /\ pc'[p] = "done"
           /\ {ErrConfirmationCodeWrong, ErrStorage} \subseteq ret'[p].err
           /\ ret'[p].tokens = NoTokens
           /\ emailLinkSignIns' = emailLinkSignIns]_vars

\* The increment of a wrong attempt was refused by the store.
C33_Witness ==
    \E p \in Procs :
        /\ args[p].op = "SignIn" /\ pc[p] = "done" /\ hist[p].found
        /\ args[p].confirmationCode # els[p].confirmationCode
        /\ ~hist[p].wrote
        /\ ret[p].err = {ErrConfirmationCodeWrong, ErrStorage}
        /\ ret[p].tokens = NoTokens
        /\ \A r \in SignInRow :
              r.confirmationCodeWrongAttemptsCount
                 = els[p].confirmationCodeWrongAttemptsCount

\* The flow asks for an email change: an old email in the flow token, or a
\* phone-to-email migration marker on the record.
EmailModificationTriggered(e, oldEmail) ==
    oldEmail # "" \/ e.phoneNumberToEmailMigrationUserID \notin {NULL, ""}

\* The call of p has passed verifySignIn.
Verified(h) == h.verifiedAt # NoTime /\ h.verifyErr = {}

\* C34: within any SignIn call the steps happen in this order, each only
\* after the previous one succeeded: terminal-marker check, verify, email
\* modification (when triggered), finalize, token generation, rotation
\* write; a failed verify is followed by no email modification, no
\* finalize, no token generation and no rotation write.
C34_StepsInOrder ==
    [][\A p \in Procs :
        (pc'[p] # pc[p] /\ args'[p].op = "SignIn")
        => LET h == hist'[p]
               e == els'[p]
           IN /\ pc[p] = "signIn"
                 => /\ pc'[p] \in {"handleEmailModification", "finishAuthProcess", "done"}
                    /\ tokensAlreadyProvided(els[p])
                       => (pc'[p] = "done" /\ h.verifiedAt = NoTime /\ ~h.wrote)
                    /\ pc'[p] # "done" => Verified(h)
                    /\ pc'[p] = "handleEmailModification"
                          <=> (Verified(h) /\ EmailModificationTriggered(e, args[p].oldEmail))
              /\ pc[p] = "handleEmailModification"
                 => pc'[p] \in {"finishAuthProcess", "done"}
              /\ pc[p] = "finishAuthProcess"
                 => pc'[p] \in {"resetLoginSession", "resetEmailModification", "done"}
              /\ pc[p] = "resetLoginSession" => pc'[p] = "done"
              /\ h.modified => Verified(h)
              /\ h.finalize # "none"
                 => /\ Verified(h)
                    /\ EmailModificationTriggered(e, args'[p].oldEmail) => h.modified
              /\ pc'[p] = "resetLoginSession"
                 => h.finalize = "ok" /\ ret'[p].tokens # NoTokens /\ h.rotation = "none"
              /\ ret'[p].tokens # NoTokens => h.finalize = "ok"
              /\ h.rotation # "none" => h.finalize = "ok"
              /\ (h.verifiedAt # NoTime /\ h.verifyErr # {})
                 => /\ pc'[p] = "done"
                    /\ ~h.modified /\ h.finalize = "none" /\ h.rotation = "none"
                    /\ ret'[p].tokens = NoTokens]_vars

\* A sign-in that changes the email went through every step.
C34_Witness ==
    \E p \in Procs :
        /\ args[p].op = "SignIn" /\ pc[p] = "done"
        /\ args[p].oldEmail # ""
        /\ Verified(hist[p]) /\ hist[p].modified
        /\ hist[p].finalize = "ok" /\ hist[p].rotation = "ok"
        /\ ret[p].tokens # NoTokens

\* A sign-in that would change the email stopped at a failed verify.
C34_WitnessFailedVerify ==
    \E p \in Procs :
        /\ args[p].op = "SignIn" /\ pc[p] = "done"
        /\ args[p].oldEmail # ""
        /\ hist[p].verifyErr # {}
        /\ ~hist[p].modified /\ hist[p].finalize = "none" /\ hist[p].rotation = "none"
        /\ \A u \in UserIDs : userEmail[u] # ID.email

\* C35: across any interleaving of SignIn calls on one record, no two
\* SignIn calls that return tokens return tokens with the same issued-token
\* sequence number: each successful call's sequence is the value its own
\* compare-and-swap wrote.
C35_TokenSequencesDistinct ==
    /\ \A p, q \in Procs :
          (/\ p # q
           /\ args[p].op = "SignIn" /\ args[q].op = "SignIn"
           /\ ret[p].tokens # NoTokens /\ ret[q].tokens # NoTokens)
          => ret[p].tokens.seq # ret[q].tokens.seq
    /\ \A p \in Procs :
          (args[p].op = "SignIn" /\ ret[p].tokens # NoTokens)
          => /\ hist[p].finalize = "ok"
             /\ ret[p].tokens.seq = hist[p].finalizeRet
             /\ ret[p].tokens.seq = els[p].issuedTokenSeq + 1

\* Two racing sign-ins with one code both returned tokens, with sequence
\* numbers 1 and 2.
C35_Witness ==
    \E p, q \in Procs :
        /\ p # q
        /\ args[p].op = "SignIn" /\ args[q].op = "SignIn"
        /\ pc[p] = "done" /\ pc[q] = "done"
        /\ ret[p].err = {} /\ ret[q].err = {}
        /\ ret[p].tokens.seq = 1 /\ ret[q].tokens.seq = 2
        /\ args[p].confirmationCode = args[q].confirmationCode

\* The copy e of the record carries the terminal marker: its confirmation
\* code is its user id.
CarriesTerminalMarker(e) == e.userID # NULL /\ e.confirmationCode = e.userID

\* C36: a SignIn call on a record already carrying the terminal marker
\* performs no write at all: with a wrong code it does not increment
\* wrongAttemptsCount, does not set blockedUntil and does not decrement the
\* IP attempt counter; it ends with ErrNoPendingLoginSession.
C36_TerminalMarkerNoWrite ==
    [][\A p \in Procs :
        (/\ pc[p] = "signIn" /\ pc'[p] # "signIn"
         /\ CarriesTerminalMarker(els[p]))
        => /\ pc'[p] = "done"
           /\ ret'[p].err = {ErrNoPendingLoginSession}
           /\ ret'[p].tokens = NoTokens
           /\ ~hist'[p].wrote /\ hist'[p].verifiedAt = NoTime
           /\ emailLinkSignIns' = emailLinkSignIns
           /\ signInsPerIP' = signInsPerIP
           /\ accountMetadata' = accountMetadata
           /\ userEmail' = userEmail /\ firebaseEmail' = firebaseEmail]_vars

\* A wrong code was presented on a record with the terminal marker; the
\* record has no wrong attempt and no block.
C36_Witness ==
    \E p \in Procs :
        /\ args[p].op = "SignIn" /\ pc[p] = "done"
        /\ CarriesTerminalMarker(els[p])
        /\ args[p].confirmationCode # els[p].confirmationCode
        /\ args[p].confirmationCode \in Codes
        /\ args[p].clientIP # "" /\ args[p].loginSessionNumber > 0
        /\ ret[p].err = {ErrNoPendingLoginSession}
        /\ \A r \in SignInRow :
              r.confirmationCodeWrongAttemptsCount = 0 /\ r.blockedUntil = NoTime

\* C37: among concurrent Status calls on the same verified record with the
\* same session token, at most one returns tokens: a call returns tokens
\* only if its own conditional rewrite of confirmationCode to the terminal
\* marker (keyed on otp, previous code and issuedTokenSeq) updated the row.
C37_OneStatusReturnsTokens ==
    /\ \A p \in Procs :
          (/\ args[p].op = "Status" /\ pc[p] = "done"
           /\ ret[p].err = {} /\ ret[p].tokens # NoTokens)
          => hist[p].rotation = "ok"
    /\ \A p, q \in Procs :
          (/\ p # q
           /\ args[p].op = "Status" /\ args[q].op = "Status"
           /\ args[p].confirmationCode = args[q].confirmationCode
           /\ pc[p] = "done" /\ pc[q] = "done"
           /\ els[p].issuedTokenSeq = els[q].issuedTokenSeq)
          => ~(/\ ret[p].err = {} /\ ret[p].tokens # NoTokens
               /\ ret[q].err = {} /\ ret[q].tokens # NoTokens)

\* What the code keeps: among the Status calls that read one state of the
\* record, at most one rewrite of the confirmation code matches the row.
C37_OneStatusRewrites ==
    \A p, q \in Procs :
        (/\ p # q
         /\ args[p].op = "Status" /\ args[q].op = "Status"
         /\ args[p].confirmationCode = args[q].confirmationCode
         /\ els[p].issuedTokenSeq = els[q].issuedTokenSeq
         /\ hist[p].found /\ hist[q].found)
        => ~(hist[p].rotation = "ok" /\ hist[q].rotation = "ok")

\* Two Status calls with one session token both returned tokens.
C37_BothReturnTokens ==
    \E p, q \in Procs :
        /\ p # q
        /\ args[p].op = "Status" /\ args[q].op = "Status"
        /\ pc[p] = "done" /\ pc[q] = "done"
        /\ ret[p].tokens # NoTokens /\ ret[p].tokens = ret[q].tokens
        /\ hist[p].rotation = "ok" /\ hist[q].rotation = "missed"

\* C38: Status never changes a record's issuedTokenSeq: the tokens it
\* returns carry the stored issuedTokenSeq (the one the call read) and the
\* only field it writes is confirmationCode; no other table is written.
C38_StatusWritesCodeOnly ==
    [][\A p \in Procs :
        (pc'[p] # pc[p] /\ args'[p].op = "Status")
        => /\ accountMetadata' = accountMetadata
           /\ signInsPerIP' = signInsPerIP
           /\ userEmail' = userEmail /\ firebaseEmail' = firebaseEmail
           /\ \A r \in emailLinkSignIns :
                [r EXCEPT !.confirmationCode = r.userID] \in emailLinkSignIns'
                \/ r \in emailLinkSignIns'
           /\ \A r2 \in emailLinkSignIns' : \E r \in emailLinkSignIns :
                /\ ByPk([email |-> r.email, deviceUniqueID |-> r.deviceUniqueID], r2)
                /\ r2.issuedTokenSeq = r.issuedTokenSeq
                /\ r2 = [r EXCEPT !.confirmationCode = r2.confirmationCode]
           /\ ret'[p].tokens # NoTokens
              => /\ ret'[p].tokens.seq = els'[p].issuedTokenSeq
                 /\ ret'[p].issuedTokenSeq = els'[p].issuedTokenSeq]_vars

\* A Status call returned tokens with the sequence of the record and wrote
\* the terminal marker; the sequence is where the sign-in left it.
C38_Witness ==
    \E p \in Procs :
        /\ args[p].op = "Status" /\ pc[p] = "done"
        /\ ret[p].err = {} /\ hist[p].rotation = "ok"
        /\ ret[p].tokens.seq = els[p].issuedTokenSeq
        /\ els[p].issuedTokenSeq >= 1
        /\ \A r \in SignInRow :
              /\ r.issuedTokenSeq = els[p].issuedTokenSeq
              /\ r.confirmationCode = r.userID
              /\ els[p].confirmationCode # r.confirmationCode

\* C39: the emailConfirmed flag returned by a successful SignIn, and passed
\* to finalize, is true if and only if the flow token carried a non-empty
\* oldEmail; a plain sign-in and a phone-to-email migration without
\* oldEmail both yield emailConfirmed = false.
C39_EmailConfirmedIffOldEmail ==
    \A p \in Procs :
        (/\ args[p].op = "SignIn"
         /\ \/ pc[p] \in {"finishAuthProcess", "resetLoginSession"}
            \/ pc[p] = "done" /\ ret[p].err = {} /\ ret[p].tokens # NoTokens)
        => (ret[p].emailConfirmed <=> args[p].oldEmail # "")

\* A phone-to-email migration without oldEmail changed the email and
\* returned tokens with emailConfirmed = false.
C39_Witness ==
    \E p \in Procs :
        /\ args[p].op = "SignIn" /\ pc[p] = "done"
        /\ ret[p].err = {} /\ ret[p].tokens # NoTokens
        /\ args[p].oldEmail = ""
        /\ els[p].phoneNumberToEmailMigrationUserID # NULL
        /\ hist[p].modified
        /\ ~ret[p].emailConfirmed
        /\ \A r \in SignInRow : r.emailConfirmedAt = NoTime

\* An email change with oldEmail returned tokens with emailConfirmed = true.
C39_WitnessConfirmed ==
    \E p \in Procs :
        /\ args[p].op = "SignIn" /\ pc[p] = "done"
        /\ ret[p].err = {} /\ ret[p].tokens # NoTokens
        /\ args[p].oldEmail # "" /\ hist[p].modified
        /\ ret[p].emailConfirmed

\* C40: deleteUser's retry of updateReferredByForAllT1Referrals repeats
\* only while the call fails with not-found or relation-not-found, and
\* stops at the first success, at the first other error, and once the
\* caller's context is cancelled (the next call returns the context's
\* error); so under a context that is eventually cancelled deleteUser
\* terminates, while with a never-cancelled context and a store that keeps
\* answering not-found the loop can always go round once more.
C40_RetryWhileNotFound ==
    /\ [][(deleteUserCall.pc = "retry" /\ deleteUserCall'.pc # "retry")
          => LET err == deleteUserCall.err
                 notFound == ErrNotFound \in err \/ ErrRelationNotFound \in err
             IN /\ deleteUserCall'.pc = "updateReferredByForAllT1Referrals" <=> notFound
                /\ err = {} => deleteUserCall'.pc = "getUserByID"
                /\ (err # {} /\ ~notFound)
                   => (deleteUserCall'.pc = "done" /\ deleteUserCall'.err = err)]_vars
    /\ [][(/\ deleteUserCall.pc = "updateReferredByForAllT1Referrals"
           /\ deleteUserCall'.pc # deleteUserCall.pc
           /\ deleteUserCall.ctxDone)
          => deleteUserCall'.err = {ErrContext}]_vars
    /\ (deleteUserCall.ctxDone ~> deleteUserCall.pc = "done")
    /\ [](/\ (deleteUserCall.pc = "updateReferredByForAllT1Referrals"
              /\ ~deleteUserCall.ctxDone)
             => ENABLED UpdateReferredByForAllT1Referrals({ErrNotFound})
          /\ (deleteUserCall.pc = "retry" /\ deleteUserCall.err = {ErrNotFound})
             => ENABLED (DeleteUserRetry
                         /\ deleteUserCall'.pc = "updateReferredByForAllT1Referrals"))

\* The loop went round up to the bound on not-found answers, then the
\* context was cancelled and deleteUser returned the context's error.
C40_Witness ==
    /\ deleteUserCall.pc = "done"
    /\ deleteUserCall.attempts = DeleteMaxAttempts
    /\ deleteUserCall.ctxDone
    /\ deleteUserCall.err = {ErrContext}

TypeOK ==
    /\ now \in 0..ScenarioMaxTime + 1
    /\ \A r \in emailLinkSignIns : r.issuedTokenSeq >= 0

====
